---- MODULE Spec2Model ----
(***************************************************************************)
(* A model of plotlib's named style stack (plotlib/util.py: DotDict,       *)
(* Styles, merge_dicts) and of the functions of plotlib/root/tools.py that *)
(* lay out a legend, convert coordinates, place a legend box, set up a     *)
(* hist and its axes, and show the underflow and overflow of a hist.       *)
(*                                                                         *)
(* Python objects live in a heap: an object id is an index into the        *)
(* sequence heap, and a mapping object holds its class and its items; an   *)
(* item is a scalar or a reference to another mapping object.  Two names   *)
(* of the registry share mutable state when an object is reachable from    *)
(* both.                                                                   *)
(***************************************************************************)
EXTENDS Integers, Sequences, FiniteSets, TLC

VARIABLES
    styles,     \* Styles._styles: style name -> object id of the style dict
    stack,      \* Styles._stack: sequence of style names
    heap,       \* the mapping objects: id -> [cls, items]
    frames,     \* the callers' open scopes: `with styles.use(n)` bodies and
                \* push calls whose matching pop is still to come
    last,       \* the last call and the error it raised: [op, err]
    legend,     \* the TLegend: [ncols, entries, err]
    pads,       \* the TCanvas and TPad objects: id -> [canvas, margins]
    hist,       \* the TH1: [nbins, entries, content, sumw2, props, setters]
    axis,       \* the TAxis: [props, setters]
    call        \* the call of a function of tools.py: its arguments, the
                \* position in its loop, and what it returned

vars == <<styles, stack, heap, frames, last, legend, pads, hist, axis, call>>

---------------------------------------------------------------------------
(* Bounds of the model *)

MaxStack == 3

(* Style names a caller uses; the first is Styles.DEFAULT_STYLE_NAME. *)
DEFAULT_STYLE_NAME == "default"
NameOrder == <<DEFAULT_STYLE_NAME, "my_style">>
Names == {NameOrder[i] : i \in DOMAIN NameOrder}
CallNames == Names \cup {"unknown"}

(* Keys of a style that callers bind to a component mapping and to a      *)
(* scalar, and the properties they set in a component.  "copy" is also the *)
(* name of a method of Styles and of dict.                                 *)
ComponentKeys == {"hist"}
ScalarKeys == {"copy"}
PropKeys == {"FillStyle"}
KeyOrder == <<"hist", "copy", "FillStyle", "pad", "x_axis", "x2_axis", "y_axis",
              "z_axis">>
Keys == {KeyOrder[i] : i \in DOMAIN KeyOrder}
Scalars == {1, 2}

(* Names that normal attribute lookup finds on a Styles object, and on a  *)
(* dict, before __getattr__ is asked.                                      *)
StylesAttrs == {"DEFAULT_STYLE_NAME", "current_style_name", "current_style",
                "get", "set", "copy", "push", "pop", "use", "_styles", "_stack"}
DictAttrs == {"copy", "get", "pop", "keys", "values", "items", "update",
              "clear", "setdefault", "popitem", "fromkeys"}

---------------------------------------------------------------------------
(* Values and the heap *)

Ref(o) == [ref |-> o]
Val(v) == [val |-> v]
IsRef(x) == "ref" \in DOMAIN x

NoItems == [k \in {} |-> Val(0)]
NewObj(cls) == [cls |-> cls, items |-> NoItems]

(* d[k] = v on the mapping object o *)
SetItemOf(h, o, k, x) ==
    [h EXCEPT ![o].items = [kk \in DOMAIN @ \cup {k} |-> IF kk = k THEN x ELSE @[kk]]]

Succ(h, o) == {h[o].items[k].ref : k \in {kk \in DOMAIN h[o].items : IsRef(h[o].items[kk])}}

RECURSIVE Closure(_, _)
Closure(h, S) ==
    LET T == S \cup UNION {Succ(h, o) : o \in S}
    IN  IF T = S THEN S ELSE Closure(h, T)

(* The objects whose mutation is visible through o *)
Reach(h, o) == Closure(h, {o})

(* The content of o with every reference followed (what == compares) *)
RECURSIVE Deep(_, _)
Deep(h, o) ==
    [cls   |-> h[o].cls,
     items |-> [k \in DOMAIN h[o].items |->
                   IF IsRef(h[o].items[k]) THEN Deep(h, h[o].items[k].ref)
                   ELSE h[o].items[k]]]

---------------------------------------------------------------------------
(* Object identity.  CPython frees a mapping that nothing refers to, and  *)
(* an address means nothing beyond identity; a state keeps the objects the *)
(* registry reaches, numbered in the order of NameOrder and KeyOrder.      *)

RootSeq(reg) ==
    LET F[i \in 0..Len(NameOrder)] ==
            IF i = 0 THEN <<>>
            ELSE IF NameOrder[i] \in DOMAIN reg /\ reg[NameOrder[i]] # 0
                 THEN Append(F[i - 1], reg[NameOrder[i]])
                 ELSE F[i - 1]
    IN  F[Len(NameOrder)]

ChildSeq(h, o) ==
    LET F[i \in 0..Len(KeyOrder)] ==
            IF i = 0 THEN <<>>
            ELSE IF KeyOrder[i] \in DOMAIN h[o].items /\ IsRef(h[o].items[KeyOrder[i]])
                 THEN Append(F[i - 1], h[o].items[KeyOrder[i]].ref)
                 ELSE F[i - 1]
    IN  F[Len(KeyOrder)]

RECURSIVE Visit(_, _, _)
Visit(h, todo, seen) ==
    IF todo = <<>> THEN seen
    ELSE IF \E i \in DOMAIN seen : seen[i] = Head(todo)
         THEN Visit(h, Tail(todo), seen)
         ELSE Visit(h, ChildSeq(h, Head(todo)) \o Tail(todo), Append(seen, Head(todo)))

IndexOf(seq, o) == CHOOSE i \in DOMAIN seq : seq[i] = o

(* The registry and heap with the unreachable objects dropped; 0 is a     *)
(* value that is no mapping.                                               *)
Collect(reg, h) ==
    LET seen == Visit(h, RootSeq(reg), <<>>)
    IN  [styles |-> [n \in DOMAIN reg |->
                       IF reg[n] = 0 THEN 0 ELSE IndexOf(seen, reg[n])],
         heap   |-> [i \in 1..Len(seen) |->
                       [cls   |-> h[seen[i]].cls,
                        items |-> [k \in DOMAIN h[seen[i]].items |->
                                     IF IsRef(h[seen[i]].items[k])
                                     THEN Ref(IndexOf(seen, h[seen[i]].items[k].ref))
                                     ELSE h[seen[i]].items[k]]]]]

---------------------------------------------------------------------------
(* copy.deepcopy and dict.copy *)

(* The mapping itself in place of a copy of it *)
DotDict_copy_Alias(h, o) == [heap |-> h, obj |-> o]

(* DotDict.copy / dict.copy: a new object of the same class whose items   *)
(* are the items of o; nested mappings are shared with o.                  *)
DotDict_copy(h, o) == [heap |-> Append(h, h[o]), obj |-> Len(h) + 1]

(* copy.copy in place of copy.deepcopy *)
DeepCopy_Shallow(h, o) == DotDict_copy(h, o)

RECURSIVE CopyObj(_, _)
RECURSIVE CopyItems(_, _, _, _)
CopyItems(h, o, ks, acc) ==
    IF ks = {} THEN [heap |-> h, items |-> acc]
    ELSE LET k == CHOOSE kk \in ks : TRUE
             x == h[o].items[k]
         IN  IF IsRef(x)
             THEN LET r == CopyObj(h, x.ref)
                  IN  CopyItems(r.heap, o, ks \ {k}, (k :> Ref(r.obj)) @@ acc)
             ELSE CopyItems(h, o, ks \ {k}, (k :> x) @@ acc)

CopyObj(h, o) ==
    LET r == CopyItems(h, o, DOMAIN h[o].items, NoItems)
    IN  [heap |-> Append(r.heap, [cls |-> h[o].cls, items |-> r.items]),
         obj  |-> Len(r.heap) + 1]

(* copy.deepcopy(o): new objects for o and for every mapping below it;    *)
(* the class of each object is kept.                                       *)
DeepCopy(h, o) == CopyObj(h, o)

---------------------------------------------------------------------------
(* The methods of Styles, as functions of the state they read *)

Put(reg, name, obj) ==
    [n \in DOMAIN reg \cup {name} |-> IF n = name THEN obj ELSE reg[n]]

(* Styles.current_style_name with the first pushed name taken as current *)
current_style_name_Bottom(stk) ==
    IF stk # <<>> THEN stk[1] ELSE DEFAULT_STYLE_NAME

current_style_name(stk) ==
    IF stk # <<>> THEN stk[Len(stk)] ELSE DEFAULT_STYLE_NAME

(* Styles.get: self._styles[style_name]; 0 stands for the KeyError *)
Styles_get(reg, name) == IF name \in DOMAIN reg THEN reg[name] ELSE 0

current_style(reg, stk) == Styles_get(reg, current_style_name(stk))

(* Styles.set that stores before it checks the type *)
Styles_set_StoreFirst(reg, name, isDict, obj) ==
    [styles |-> Put(reg, name, obj), ret |-> IF isDict THEN obj ELSE 0,
     err |-> IF isDict THEN "none" ELSE "TypeError"]

Styles_set(reg, name, isDict, obj) ==
    IF ~isDict
    THEN [styles |-> reg, ret |-> 0, err |-> "TypeError"]
    ELSE [styles |-> Put(reg, name, obj), ret |-> obj, err |-> "none"]

Styles_copy(reg, h, src, dst) ==
    IF src \notin DOMAIN reg
    THEN [styles |-> reg, heap |-> h, ret |-> 0, err |-> "KeyError"]
    ELSE LET c == DeepCopy(h, Styles_get(reg, src))
             s == Styles_set(reg, dst, TRUE, c.obj)
         IN  [styles |-> s.styles, heap |-> c.heap, ret |-> s.ret, err |-> s.err]

(* Styles.push without the check of the name *)
Styles_push_NoCheck(reg, stk, name) ==
    [stack |-> Append(stk, name), err |-> "none"]

Styles_push(reg, stk, name) ==
    IF name \notin DOMAIN reg
    THEN [stack |-> stk, err |-> "ValueError"]
    ELSE [stack |-> Append(stk, name), err |-> "none"]

(* Styles.__getattr__ reads the attribute of the current style.  Python  *)
(* calls __getattr__ only when the normal lookup finds nothing: a name in  *)
(* StylesAttrs is answered by the Styles object itself, and getattr on the *)
(* style finds a dict method before DotDict.__getattr__ reads the key.  A  *)
(* plain dict has no __getattr__.                                          *)
Found(x) == [kind |-> "value", value |-> x]
OwnAttribute(a) == [kind |-> "attribute", value |-> Val(0)]
AttributeError == [kind |-> "AttributeError", value |-> Val(0)]

DotDict_getattr(h, o, attr) ==
    IF attr \in DictAttrs THEN OwnAttribute(attr)
    ELSE IF h[o].cls = "DotDict" /\ attr \in DOMAIN h[o].items
         THEN Found(h[o].items[attr])
         ELSE AttributeError

Styles_getattr(reg, stk, h, attr) ==
    IF attr \in StylesAttrs THEN OwnAttribute(attr)
    ELSE DotDict_getattr(h, current_style(reg, stk), attr)

(* Styles.pop that removes the first name of the stack *)
Styles_pop_First(stk) ==
    IF stk = <<>>
    THEN [stack |-> stk, ret |-> "", err |-> "IndexError"]
    ELSE [stack |-> Tail(stk), ret |-> Head(stk), err |-> "none"]

(* list.pop() of self._stack *)
Styles_pop(stk) ==
    IF stk = <<>>
    THEN [stack |-> stk, ret |-> "", err |-> "IndexError"]
    ELSE [stack |-> SubSeq(stk, 1, Len(stk) - 1), ret |-> stk[Len(stk)],
          err |-> "none"]

(* The exit of Styles.use with the pop after the yield, outside finally *)
Styles_use_exit_NoFinally(stk, raised) ==
    IF raised THEN [stack |-> stk, ret |-> "", err |-> "none"]
    ELSE Styles_pop(stk)

(* The exit of Styles.use: the finally clause pops, whether the body      *)
(* returned or raised.                                                     *)
Styles_use_exit(stk, raised) == Styles_pop(stk)

---------------------------------------------------------------------------
(* The state after `styles = Styles()`: the default style is an empty     *)
(* DotDict, the stack is empty.                                            *)

Outcome(op, err) == [op |-> op, err |-> err]

NoLegend == [ncols |-> 1, entries |-> <<>>, err |-> "none"]

(* No call of tools.py made yet, no TH1 and no TAxis set up *)
NoCall == [op |-> "none"]
NoHist == [nbins |-> 0, entries |-> 0, content |-> <<>>, sumw2 |-> <<>>,
           props |-> <<>>, setters |-> <<>>]
NoAxis == [props |-> <<>>, setters |-> <<>>]

Init ==
    /\ heap = <<NewObj("DotDict")>>
    /\ styles = (DEFAULT_STYLE_NAME :> 1)
    /\ stack = <<>>
    /\ frames = <<>>
    /\ last = Outcome("init", "none")
    /\ legend = NoLegend
    /\ pads = <<>>
    /\ hist = NoHist
    /\ axis = NoAxis
    /\ call = NoCall

Frame(kind, name) == [kind |-> kind, name |-> name, base |-> stack]

TopFrame == frames[Len(frames)]
PopFrame == SubSeq(frames, 1, Len(frames) - 1)

(* The registry, heap and outcome a call leaves *)
Commit(reg, h, op, err) ==
    LET c == Collect(reg, h)
    IN  /\ styles' = c.styles
        /\ heap' = c.heap
        /\ last' = Outcome(op, err)

---------------------------------------------------------------------------
(* Calls of Styles.set, by what the caller passes as the style *)

SetCall(name, isDict, obj, h) ==
    LET r == Styles_set(styles, name, isDict, obj)
    IN  /\ Commit(r.styles, h, "set", r.err)
        /\ UNCHANGED <<stack, frames, legend, pads, hist, axis, call>>

(* styles.set(name, 5): the style is no dict *)
SetInvalid(name) == SetCall(name, FALSE, 0, heap)

(* styles.set(name, DotDict()) or styles.set(name, {}) *)
SetFresh(name, cls) ==
    SetCall(name, TRUE, Len(heap) + 1, Append(heap, NewObj(cls)))

(* styles.set(name, styles.get(other)) *)
SetExisting(name, other) ==
    /\ other \in DOMAIN styles
    /\ SetCall(name, TRUE, Styles_get(styles, other), heap)

(* styles.set(name, styles.get(other).copy()) *)
SetShallow(name, other) ==
    /\ other \in DOMAIN styles
    /\ LET c == DotDict_copy(heap, Styles_get(styles, other))
       IN  SetCall(name, TRUE, c.obj, c.heap)

Copy(src, dst) ==
    LET r == Styles_copy(styles, heap, src, dst)
    IN  /\ Commit(r.styles, r.heap, "copy", r.err)
        /\ UNCHANGED <<stack, frames, legend, pads, hist, axis, call>>

---------------------------------------------------------------------------
(* push, pop and use.  A caller keeps its pushes and pops balanced inside *)
(* the body of a `with styles.use(...)`: it pops only what it pushed.      *)

Push(name) ==
    /\ Len(stack) < MaxStack
    /\ LET r == Styles_push(styles, stack, name)
       IN  /\ stack' = r.stack
           /\ frames' = IF r.err = "none" THEN Append(frames, Frame("push", name))
                        ELSE frames
           /\ last' = Outcome("push", r.err)
    /\ UNCHANGED <<styles, heap, legend, pads, hist, axis, call>>

Pop ==
    /\ IF frames = <<>> THEN TRUE ELSE TopFrame.kind = "push"
    /\ LET r == Styles_pop(stack)
       IN  /\ stack' = r.stack
           /\ last' = Outcome("pop", r.err)
    /\ frames' = IF frames = <<>> THEN frames ELSE PopFrame
    /\ UNCHANGED <<styles, heap, legend, pads, hist, axis, call>>

(* Entering `with styles.use(name)`: push, then yield self.get(name) *)
UseEnter(name) ==
    /\ Len(stack) < MaxStack
    /\ LET r == Styles_push(styles, stack, name)
       IN  /\ stack' = r.stack
           /\ frames' = IF r.err = "none" THEN Append(frames, Frame("use", name))
                        ELSE frames
           /\ last' = Outcome("use", r.err)
    /\ UNCHANGED <<styles, heap, legend, pads, hist, axis, call>>

(* Leaving the body of the innermost `with styles.use(...)`, by its end   *)
(* or by an error raised in it.                                            *)
UseExit(raised) ==
    /\ frames # <<>>
    /\ TopFrame.kind = "use"
    /\ LET r == Styles_use_exit(stack, raised)
       IN  /\ stack' = r.stack
           /\ last' = Outcome("use_exit", IF raised THEN "BodyError" ELSE r.err)
    /\ frames' = PopFrame
    /\ UNCHANGED <<styles, heap, legend, pads, hist, axis, call>>

---------------------------------------------------------------------------
(* The owner of a style changes it in place *)

(* styles.get(name)[k] = v *)
SetItem(name, k, v) ==
    /\ name \in DOMAIN styles
    /\ Commit(styles, SetItemOf(heap, styles[name], k, Val(v)),
              "setitem", "none")
    /\ UNCHANGED <<stack, frames, legend, pads, hist, axis, call>>

(* styles.get(name)[k] = DotDict() *)
SetComponent(name, k) ==
    /\ name \in DOMAIN styles
    /\ Commit(styles,
              SetItemOf(Append(heap, NewObj("DotDict")), styles[name], k,
                        Ref(Len(heap) + 1)),
              "setcomponent", "none")
    /\ UNCHANGED <<stack, frames, legend, pads, hist, axis, call>>

(* styles.get(name)[k][p] = v, as in my_style.hist.FillStyle = 3444 *)
SetProp(name, k, p, v) ==
    /\ name \in DOMAIN styles
    /\ k \in DOMAIN heap[styles[name]].items
    /\ IsRef(heap[styles[name]].items[k])
    /\ Commit(styles, SetItemOf(heap, heap[styles[name]].items[k].ref, p, Val(v)),
              "setprop", "none")
    /\ UNCHANGED <<stack, frames, legend, pads, hist, axis, call>>

Mutate(name) ==
    \/ \E k \in ScalarKeys, v \in Scalars : SetItem(name, k, v)
    \/ \E k \in ComponentKeys : SetComponent(name, k)
    \/ \E k \in ComponentKeys, p \in PropKeys, v \in Scalars : SetProp(name, k, p, v)

RegistryCall ==
    \/ \E name \in Names : SetInvalid(name)
    \/ \E name \in Names, cls \in {"DotDict", "dict"} : SetFresh(name, cls)
    \/ \E name \in Names, other \in Names : SetExisting(name, other)
    \/ \E src \in CallNames, dst \in Names : Copy(src, dst)

StackCall ==
    \/ \E name \in CallNames : Push(name)
    \/ Pop
    \/ \E name \in CallNames : UseEnter(name)
    \/ \E raised \in BOOLEAN : UseExit(raised)

(* The registry and the stack of styles: every call of Styles *)
Next ==
    \/ RegistryCall
    \/ StackCall

Spec == Init /\ [][Next]_vars

(* The registry and the contents of the styles: set and copy with every   *)
(* kind of argument, and the owner's changes at both levels of a style.    *)
NextContent ==
    \/ RegistryCall
    \/ \E name \in Names, other \in Names : SetShallow(name, other)
    \/ \E name \in Names : Mutate(name)

SpecContent == Init /\ [][NextContent]_vars

(* Styles whose top levels differ, pushed and popped: what an attribute   *)
(* lookup on the Styles object reads.                                      *)
NextLookup ==
    \/ \E name \in Names, cls \in {"DotDict", "dict"} : SetFresh(name, cls)
    \/ \E name \in Names, k \in ScalarKeys, v \in Scalars : SetItem(name, k, v)
    \/ \E name \in Names, k \in ComponentKeys : SetComponent(name, k)
    \/ \E name \in CallNames : Push(name)
    \/ Pop

SpecLookup == Init /\ [][NextLookup]_vars

---------------------------------------------------------------------------
(* fill_legend (plotlib/root/tools.py).  An input entry i = 1..n is the   *)
(* pair (object i, label i); its label is known by the width w[i] that     *)
(* ROOT measures for it, and sw is the measured width of one space.        *)
(* AddEntry appends to the legend's list of entries, which ROOT lays out   *)
(* row by row over the legend's columns.                                   *)

MaxEntries == 5
MaxCols == 3
MaxWidth == 2
MaxSpaceWidth == 2

(* The row count rounded down *)
CeilDiv_Floor(n, c) == n \div c

(* int(math.ceil(float(n) / n_cols)) *)
CeilDiv(n, c) == (n + c - 1) \div c

SeqMax(w) == CHOOSE x \in {w[i] : i \in DOMAIN w} : \A i \in DOMAIN w : w[i] <= x

(* The entry passed for row i, column j: its index in entries, from 0,    *)
(* taken row by row as ROOT itself fills a legend                          *)
SlotIndex_RowMajor(i, j, n_rows, n_cols) == i * n_cols + j

(* idx = i + n_rows * j *)
SlotIndex(i, j, n_rows, n_cols) == i + n_rows * j

(* What one AddEntry call passes: the object, whose label, the number of  *)
(* spaces appended to it, and whether a draw option is given               *)
(* The padding of a label rounded up instead of down *)
RealEntry_PadUp(idx, w, sw) ==
    [obj |-> idx + 1, label |-> idx + 1,
     spaces |-> (SeqMax(w) - w[idx + 1] + sw - 1) \div sw, option |-> "default"]

RealEntry(idx, w, sw) ==
    [obj |-> idx + 1, label |-> idx + 1, spaces |-> (SeqMax(w) - w[idx + 1]) \div sw,
     option |-> "default"]

Placeholder(n, w, sw) ==
    [obj |-> n, label |-> 0, spaces |-> SeqMax(w) \div sw, option |-> ""]

(* The AddEntry calls of the two loops, in the order they are made *)
AddEntryCalls(n, n_cols, w, sw) ==
    LET n_rows == CeilDiv(n, n_cols)
    IN  [t \in 1..(n_rows * n_cols) |->
            LET i == (t - 1) \div n_cols
                j == (t - 1) % n_cols
                idx == SlotIndex(i, j, n_rows, n_cols)
            IN  IF idx < n THEN RealEntry(idx, w, sw) ELSE Placeholder(n, w, sw)]

(* fill_legend that takes a legend of no column as one of one column *)
fill_legend_OneColumn(lg, n, w, sw) ==
    IF n = 0 THEN [lg EXCEPT !.err = "ValueError"]
    ELSE [lg EXCEPT !.entries = @ \o AddEntryCalls(n, IF lg.ncols = 0 THEN 1 ELSE lg.ncols, w, sw),
                    !.err = "none"]

(* fill_legend(legend, entries): the error it raises, and the entries of  *)
(* the legend after it                                                     *)
fill_legend(lg, n, w, sw) ==
    IF lg.ncols = 0 THEN [lg EXCEPT !.err = "ZeroDivisionError"]
    ELSE IF n = 0 THEN [lg EXCEPT !.err = "ValueError"]
    ELSE [lg EXCEPT !.entries = @ \o AddEntryCalls(n, lg.ncols, w, sw),
                    !.err = "none"]

(* create_legend(props={"NColumns": c}): a new TLegend of c columns *)
CreateLegend(c) ==
    /\ legend' = [ncols |-> c, entries |-> <<>>, err |-> "none"]
    /\ last' = Outcome("create_legend", "none")
    /\ call' = NoCall
    /\ UNCHANGED <<styles, stack, heap, frames, pads, hist, axis>>

(* legend.SetNColumns(c), as setup_legend(legend, props={"NColumns": c})  *)
(* calls it                                                                *)
SetNColumns(c) ==
    /\ legend.entries # <<>>
    /\ c # legend.ncols
    /\ legend' = [legend EXCEPT !.ncols = c, !.err = "none"]
    /\ last' = Outcome("SetNColumns", "none")
    /\ UNCHANGED <<styles, stack, heap, frames, pads, hist, axis, call>>

(* fill_legend on a new legend, and again with the same entries on a      *)
(* legend of no column                                                     *)
FillLegend(n, w, sw) ==
    /\ \/ legend.entries = <<>> /\ call = NoCall
       \/ /\ legend.ncols = 0
          /\ call = [op |-> "fill_legend", n |-> n, widths |-> w, space_width |-> sw]
    /\ legend' = fill_legend(legend, n, w, sw)
    /\ last' = Outcome("fill_legend", legend'.err)
    /\ call' = [op |-> "fill_legend", n |-> n, widths |-> w, space_width |-> sw]
    /\ UNCHANGED <<styles, stack, heap, frames, pads, hist, axis>>

NextLegend ==
    \/ \E c \in 0..MaxCols : CreateLegend(c)
    \/ SetNColumns(0)
    \/ \E n \in 0..MaxEntries, sw \in 1..MaxSpaceWidth :
          \E w \in [1..n -> 1..MaxWidth] : FillLegend(n, w, sw)

SpecLegend == Init /\ [][NextLegend]_vars

---------------------------------------------------------------------------
(* Properties of the style stack, under Spec *)

(* C1: leaving a `with styles.use(name)` scope, by the end of its body or *)
(* by an error raised in it, leaves the stack (and so the current style    *)
(* name) as it was before the scope was entered.                           *)
C1_UseRestoresStack ==
    [][\A raised \in BOOLEAN :
          UseExit(raised) =>
             /\ stack' = TopFrame.base
             /\ current_style_name(stack') = current_style_name(TopFrame.base)]_vars

(* A scope left by an error while another style stays below it *)
C1_Witness ==
    /\ last = Outcome("use_exit", "BodyError")
    /\ stack # <<>>
    /\ frames # <<>>

(* A sequence of push(name) and pop() calls, run from a stack; a call     *)
(* that raises ends the sequence.                                          *)
PopCall == "pop()"
SeqCalls == Names \cup {PopCall}

RECURSIVE RunSeq(_, _, _)
RunSeq(reg, stk, calls) ==
    IF calls = <<>> THEN [stack |-> stk, err |-> "none"]
    ELSE LET r == IF Head(calls) = PopCall THEN Styles_pop(stk)
                  ELSE Styles_push(reg, stk, Head(calls))
         IN  IF r.err # "none" THEN [stack |-> r.stack, err |-> r.err]
             ELSE RunSeq(reg, r.stack, Tail(calls))

Pushes(calls, n) == Cardinality({i \in 1..n : calls[i] # PopCall})
Pops(calls, n) == Cardinality({i \in 1..n : calls[i] = PopCall})

Balanced(calls) ==
    /\ \A n \in 1..Len(calls) : Pushes(calls, n) >= Pops(calls, n)
    /\ Pushes(calls, Len(calls)) = Pops(calls, Len(calls))

MaxSeq == 4

BalancedSeqs ==
    {calls \in UNION {[1..n -> SeqCalls] : n \in 0..MaxSeq} :
        /\ Balanced(calls)
        /\ \A i \in DOMAIN calls : calls[i] = PopCall \/ calls[i] \in DOMAIN styles}

(* C2: from every reachable stack, every balanced sequence of push and    *)
(* pop calls ends with current_style_name and current_style as they were.  *)
C2_BalancedRestores ==
    \A calls \in BalancedSeqs :
        LET r == RunSeq(styles, stack, calls)
        IN  /\ r.err = "none"
            /\ current_style_name(r.stack) = current_style_name(stack)
            /\ current_style(styles, r.stack) = current_style(styles, stack)

(* A stack of two different names, from which push, push, pop, pop runs *)
C2_Witness ==
    /\ Len(stack) = 2
    /\ stack[1] # stack[2]
    /\ last = Outcome("pop", "none")
    /\ <<stack[1], stack[2], PopCall, PopCall>> \in BalancedSeqs

(* C5: every name on the stack is registered, and so is the default name; *)
(* reading the current style gives the style registered under the top      *)
(* name, or under the default name when the stack is empty.                *)
C5_StackNamesRegistered ==
    /\ DEFAULT_STYLE_NAME \in DOMAIN styles
    /\ \A i \in DOMAIN stack : stack[i] \in DOMAIN styles
    /\ current_style(styles, stack) # 0
    /\ current_style(styles, stack) =
          IF stack = <<>> THEN styles[DEFAULT_STYLE_NAME] ELSE styles[stack[Len(stack)]]

(* A stack that holds a name registered after construction, re-registered *)
(* since it was pushed                                                     *)
C5_Witness ==
    /\ Len(stack) >= 2
    /\ stack[Len(stack)] # DEFAULT_STYLE_NAME
    /\ last = Outcome("set", "none")

(* C6: push of an unregistered name raises ValueError and changes neither *)
(* the stack nor the registry; push of a registered name appends that name *)
(* and changes nothing else.                                               *)
C6_Push ==
    [][\A name \in CallNames :
          Push(name) =>
             /\ styles' = styles
             /\ heap' = heap
             /\ IF name \in DOMAIN styles
                THEN /\ stack' = Append(stack, name)
                     /\ last'.err = "none"
                ELSE /\ stack' = stack
                     /\ last'.err = "ValueError"]_vars

(* A failed push onto a stack that holds a name *)
C6_Witness ==
    /\ last = Outcome("push", "ValueError")
    /\ stack # <<>>

(* C7: pop of a non-empty stack removes the top name and returns it; pop  *)
(* of the empty stack raises IndexError, the stack stays empty, the        *)
(* registry is unchanged and the current style is still the default one.   *)
C7_Pop ==
    [][Pop =>
          /\ styles' = styles
          /\ heap' = heap
          /\ IF stack # <<>>
             THEN /\ stack' = SubSeq(stack, 1, Len(stack) - 1)
                  /\ Styles_pop(stack).ret = stack[Len(stack)]
                  /\ last'.err = "none"
             ELSE /\ stack' = <<>>
                  /\ last'.err = "IndexError"
                  /\ current_style_name(stack') = DEFAULT_STYLE_NAME
                  /\ current_style(styles', stack') = styles[DEFAULT_STYLE_NAME]]_vars

(* A pop of the empty stack, after another style was registered *)
C7_Witness ==
    /\ last = Outcome("pop", "IndexError")
    /\ stack = <<>>
    /\ Cardinality(DOMAIN styles) > 1

---------------------------------------------------------------------------
(* Properties of the registry and of the styles' contents, under          *)
(* SpecContent                                                             *)

Registered == DOMAIN styles
DeepStyle(name) == Deep(heap, styles[name])
Share(n, m) == Reach(heap, styles[n]) \cap Reach(heap, styles[m]) # {}
SharingPairs == {p \in Registered \X Registered : p[1] # p[2] /\ Share(p[1], p[2])}

(* The steps of each call, told from last' before the call is evaluated *)
CopyStep(src, dst) == last'.op = "copy" /\ Copy(src, dst)
SetInvalidStep(name) == last' = Outcome("set", "TypeError") /\ SetInvalid(name)
SetFreshStep(name, cls) == last' = Outcome("set", "none") /\ SetFresh(name, cls)
SetExistingStep(name, other) == last' = Outcome("set", "none") /\ SetExisting(name, other)
MutateStep(name) ==
    last'.op \in {"setitem", "setcomponent", "setprop"} /\ Mutate(name)

(* A change made through name leaves every style that shares nothing with *)
(* it as it was, and does not make them share.                             *)
MutationIsolated ==
    \A n \in Names :
        MutateStep(n) =>
            \A m \in Registered \ {n} :
                ~Share(n, m) => /\ DeepStyle(m)' = DeepStyle(m)
                                /\ ~Share(n, m)'

(* C3: copy(src, dst) of a registered src registers under dst a style     *)
(* that deep-equals the style of src, which the call leaves as it was; the *)
(* two share no mapping, so that a later change of either, at the top      *)
(* level or inside a component, leaves the other unchanged.                *)
C3_CopyIsDeep ==
    [][/\ \A src \in Registered, dst \in Names :
             CopyStep(src, dst) =>
                /\ dst \in Registered'
                /\ DeepStyle(dst)' = DeepStyle(src)
                /\ last'.err = "none"
                /\ src # dst => /\ DeepStyle(src)' = DeepStyle(src)
                                /\ ~Share(src, dst)'
       /\ MutationIsolated]_vars

(* Right after a copy of a style that holds a component with a property *)
C3_Witness ==
    /\ last = Outcome("copy", "none")
    /\ Registered = Names
    /\ \A n \in Names : \E k \in ComponentKeys :
          /\ k \in DOMAIN heap[styles[n]].items
          /\ IsRef(heap[styles[n]].items[k])
          /\ heap[heap[styles[n]].items[k].ref].items # NoItems
    /\ SharingPairs = {}
    /\ \A n \in Names : DeepStyle(n) = DeepStyle(DEFAULT_STYLE_NAME)

(* C4 as stated: in every state that set and copy calls reach, no two     *)
(* distinct names share mutable state.                                     *)
C4_NoTwoNamesShare == SharingPairs = {}

(* C4, amended: copy, and set of a mapping that no registered style       *)
(* reaches, never make two names share mutable state, nor do the owner's   *)
(* changes; and a change through one name never changes a style that       *)
(* shares nothing with it.  (set stores the mapping it is given: a set of  *)
(* an already registered style, or of a shallow copy of one, makes two     *)
(* names share.)                                                           *)
C4_FreshCallsNeverShare ==
    [][/\ ( \/ \E src \in CallNames, dst \in Names : CopyStep(src, dst)
            \/ \E name \in Names, cls \in {"DotDict", "dict"} : SetFreshStep(name, cls)
            \/ \E name \in Names : SetInvalidStep(name)
            \/ \E name \in Names : MutateStep(name) )
          => SharingPairs' \subseteq SharingPairs
       /\ \A n \in Names :
             MutateStep(n) => \A m \in Registered \ {n} :
                              ~Share(n, m) => DeepStyle(m)' = DeepStyle(m)]_vars

(* Two names that share nothing, each with a component, one just changed  *)
(* inside its component so that the two now differ                         *)
C4_Witness ==
    /\ last = Outcome("setprop", "none")
    /\ Registered = Names
    /\ SharingPairs = {}
    /\ \A n \in Names : \E k \in ComponentKeys :
          /\ k \in DOMAIN heap[styles[n]].items
          /\ IsRef(heap[styles[n]].items[k])
    /\ \E n \in Names : DeepStyle(n) # DeepStyle(DEFAULT_STYLE_NAME)

(* C8: set of a value that is no dict raises TypeError and leaves the     *)
(* registry as it was; set of a dict stores that very object under the     *)
(* name, returns it, and leaves the stack and the other names alone.       *)
C8_Set ==
    [][/\ \A name \in Names :
             SetInvalidStep(name) =>
                /\ last'.err = "TypeError"
                /\ styles' = styles
                /\ heap' = heap
                /\ stack' = stack
       /\ \A name \in Names, cls \in {"DotDict", "dict"} :
             SetFreshStep(name, cls) =>
                /\ last'.err = "none"
                /\ name \in Registered'
                /\ DeepStyle(name)' = NewObj(cls)
                /\ \A m \in Registered : m # name => /\ m \in Registered'
                                                    /\ DeepStyle(m)' = DeepStyle(m)
                /\ stack' = stack
       /\ \A name \in Names, other \in Registered :
             SetExistingStep(name, other) =>
                LET r == Styles_set(styles, name, TRUE, styles[other])
                IN  /\ last'.err = "none"
                    /\ r.ret = styles[other]
                    /\ Styles_get(r.styles, name) = r.ret
                    /\ Styles_get(styles', name) = Styles_get(styles', other)
                    /\ DeepStyle(name)' = DeepStyle(other)
                    /\ \A m \in Registered : m # name => DeepStyle(m)' = DeepStyle(m)
                    /\ stack' = stack]_vars

(* A failed set on a name whose style holds content *)
C8_Witness ==
    /\ last = Outcome("set", "TypeError")
    /\ Registered = Names
    /\ \A n \in Names : heap[styles[n]].items # NoItems

---------------------------------------------------------------------------
(* Attribute lookup on the Styles object, under SpecLookup *)

CurrentObj == heap[current_style(styles, stack)]
Lookup(k) == Styles_getattr(styles, stack, heap, k)

(* C9 as stated: for every key k of the current style, the attribute k of *)
(* the Styles object is the value of key k in the current style.           *)
C9_LookupEveryKey ==
    \A k \in Keys :
        k \in DOMAIN CurrentObj.items => Lookup(k) = Found(CurrentObj.items[k])

(* C9, amended: for every key k that is the name of no attribute of the   *)
(* Styles object and of no dict attribute, and a current style that is a   *)
(* DotDict, the attribute k of the Styles object is the value of key k in  *)
(* the current style (the style of the top name of the stack, or the       *)
(* default style when the stack is empty), and the lookup raises           *)
(* AttributeError when the current style has no key k: a value of a lower  *)
(* or of the default style is never returned for it.  A key that is also   *)
(* an attribute of Styles or of dict gives that attribute, and a current   *)
(* style that is a plain dict gives AttributeError.                        *)
C9_LookupForwardsToCurrent ==
    LET top == IF stack = <<>> THEN styles[DEFAULT_STYLE_NAME]
               ELSE styles[stack[Len(stack)]]
    IN  \A k \in Keys :
           /\ (k \notin StylesAttrs \cup DictAttrs) =>
                 Lookup(k) = IF heap[top].cls = "DotDict" /\ k \in DOMAIN heap[top].items
                             THEN Found(heap[top].items[k])
                             ELSE AttributeError
           /\ (k \in StylesAttrs \cup DictAttrs) => Lookup(k).kind = "attribute"

(* The top style holds a key that the style below it and the default      *)
(* style lack                                                              *)
C9_Witness ==
    /\ Len(stack) >= 2
    /\ stack[Len(stack)] # stack[Len(stack) - 1]
    /\ \E k \in Keys \ (StylesAttrs \cup DictAttrs) :
          /\ Lookup(k).kind = "value"
          /\ k \notin DOMAIN heap[styles[stack[Len(stack) - 1]]].items
          /\ (k \notin DOMAIN heap[styles[DEFAULT_STYLE_NAME]].items
              \/ stack[Len(stack)] = DEFAULT_STYLE_NAME)

---------------------------------------------------------------------------
(* Properties of fill_legend, under SpecLegend *)

Filled == last = Outcome("fill_legend", "none")
IsPlaceholder(e) == e.option = ""
EntryCount == Cardinality({t \in DOMAIN legend.entries : ~IsPlaceholder(legend.entries[t])})
RowCount == Len(legend.entries) \div legend.ncols

(* The entry ROOT shows in row i, column j (from 0): it fills row by row *)
ShownAt(i, j) == legend.entries[i * legend.ncols + j + 1]

IsEntry(e, idx) ==
    IF idx < EntryCount THEN ~IsPlaceholder(e) /\ e.obj = idx + 1 /\ e.label = idx + 1
    ELSE IsPlaceholder(e)

RowCountIsCeil ==
    /\ Len(legend.entries) = RowCount * legend.ncols
    /\ RowCount * legend.ncols >= EntryCount
    /\ (RowCount - 1) * legend.ncols < EntryCount

(* C10 as stated: the AddEntry calls are made for entry 0, 1, ..., n-1 in *)
(* this order, and the placeholders follow.                                *)
C10_CallsInInputOrder ==
    Filled => /\ RowCountIsCeil
              /\ \A t \in DOMAIN legend.entries : IsEntry(legend.entries[t], t - 1)

(* C10, amended: row_count = ceil(n / c) and column j shows the entries   *)
(* j*row_count .. (j+1)*row_count - 1 from top to bottom, placeholders     *)
(* where the index is >= n; the AddEntry calls are made row by row, call   *)
(* number t (from 0) passing entry (t div c) + row_count * (t mod c); for  *)
(* 5 entries and 2 columns the calls pass 0, 3, 1, 4, 2, placeholder.      *)
C10_ColumnMajorLayout ==
    Filled =>
       /\ RowCountIsCeil
       /\ \A j \in 0..(legend.ncols - 1), i \in 0..(RowCount - 1) :
             IsEntry(ShownAt(i, j), j * RowCount + i)
       /\ \A t \in 0..(Len(legend.entries) - 1) :
             IsEntry(legend.entries[t + 1],
                     (t \div legend.ncols) + RowCount * (t % legend.ncols))
       /\ (EntryCount = 5 /\ legend.ncols = 2) =>
             /\ [t \in 1..5 |-> legend.entries[t].obj] = <<1, 4, 2, 5, 3>>
             /\ IsPlaceholder(legend.entries[6])
             /\ Len(legend.entries) = 6

(* Five entries filled into two columns *)
C10_Witness ==
    /\ Filled
    /\ legend.ncols = 2
    /\ EntryCount = 5
    /\ Len(legend.entries) = 6

(* The width of the label of entry e as fill_legend leaves it: the width  *)
(* of the label it was given (none for the placeholder) and of the spaces  *)
(* appended to it                                                          *)
MaxLabelWidth == SeqMax(call.widths)
PaddedWidth(e) ==
    (IF e.label = 0 THEN 0 ELSE call.widths[e.label]) + e.spaces * call.space_width
BlankEntries == {t \in DOMAIN legend.entries : legend.entries[t].label = 0}

(* C11: for n >= 1 entries and c >= 1 columns fill_legend makes           *)
(* row_count * c AddEntry calls with row_count = ceil(n / c); every input  *)
(* entry is passed in exactly one call, and each of the other              *)
(* row_count * c - n calls passes the object of the last input entry, a    *)
(* label of spaces only and an empty draw option.                          *)
C11_SlotsAndPlaceholders ==
    Filled =>
       LET n == call.n
           c == legend.ncols
           rows == Len(legend.entries) \div c
       IN  /\ n >= 1 /\ c >= 1
           /\ Len(legend.entries) = rows * c
           /\ rows * c >= n
           /\ (rows - 1) * c < n
           /\ \A i \in 1..n :
                 Cardinality({t \in DOMAIN legend.entries :
                                 /\ legend.entries[t].obj = i
                                 /\ legend.entries[t].label = i}) = 1
           /\ Cardinality(BlankEntries) = rows * c - n
           /\ \A t \in BlankEntries :
                 /\ legend.entries[t].obj = n
                 /\ legend.entries[t].option = ""

(* Four entries in three columns: two rows, two placeholders *)
C11_Witness ==
    /\ Filled
    /\ call.n = 4
    /\ legend.ncols = 3
    /\ Cardinality(BlankEntries) = 2

C13_ZeroColumns ==
    [][(last'.op = "fill_legend" /\ legend.ncols = 0) =>
          /\ last'.err = "ZeroDivisionError"
          /\ legend'.err = "ZeroDivisionError"
          /\ legend'.entries = legend.entries
          /\ legend'.ncols = 0]_vars

(* The error on a legend that held entries when its columns were set to 0 *)
C13_Witness ==
    /\ last = Outcome("fill_legend", "ZeroDivisionError")
    /\ legend.ncols = 0
    /\ legend.entries # <<>>
    /\ call.n >= 1

---------------------------------------------------------------------------
(* Coordinates (plotlib/root/tools.py: get_x, get_y).  A float is a whole *)
(* number of parts of 1/One; a number is an int (a count of pixels) or a   *)
(* float, and an argument that is not given is None.                       *)

One == 3200

Px(p) == [kind |-> "int", v |-> p]
Fl(v) == [kind |-> "float", v |-> v]
None == [kind |-> "None", v |-> 0]
IsInt(a) == a.kind = "int"
IsNone(a) == a.kind = "None"

Returns(a) == [err |-> "none", ret |-> a]
Raises(e) == [err |-> e, ret |-> None]

(* The default style (plotlib/root/styles/default.py): canvas_width=800,  *)
(* canvas_height=640, legend_dy=0.045, legend_x1=0.68, legend_x2=0.96,     *)
(* legend_y2=0.92                                                          *)
default_canvas_width == 800
default_canvas_height == 640
default_legend_dy == 144
default_legend_x1 == 2176
default_legend_x2 == 3072
default_legend_y2 == 2944

MaxMargin == 1
MaxDepth == 3

MarginKeys == {"LeftMargin", "RightMargin", "BottomMargin", "TopMargin"}

(* styles.<attr> where a number is expected: [err, ret] *)
StyleNumber(attr) ==
    LET r == Styles_getattr(styles, stack, heap, attr)
    IN  IF r.kind = "value" /\ ~IsRef(r.value) THEN Returns(r.value.val)
        ELSE Raises("AttributeError")

(* getattr(styles.pad, key, 0.) *)
StylePadMargin(key) ==
    LET pad == Styles_getattr(styles, stack, heap, "pad")
    IN  IF pad.kind # "value" \/ ~IsRef(pad.value) THEN Raises("AttributeError")
        ELSE LET m == DotDict_getattr(heap, pad.value.ref, key)
             IN  IF m.kind = "value" THEN Returns(m.value.val) ELSE Returns(0)

(* round(a / b) of Python 3: to the nearest whole number, a half to the   *)
(* even one                                                                *)
RoundDiv(a, b) ==
    LET q == a \div b
        r == a % b
    IN  IF 2 * r < b THEN q
        ELSE IF 2 * r > b THEN q + 1
        ELSE IF q % 2 = 0 THEN q ELSE q + 1

(* Int_t(a / b) of ROOT: towards zero *)
TruncDiv(a, b) == IF a >= 0 THEN a \div b ELSE -((-a) \div b)

(* TPad::PixeltoX, PixeltoY(-y), XtoPixel and YtoPixel of a pad or canvas *)
(* that spans a canvas of the default size, in the coordinates of 0 .. 1   *)
PixeltoX(o, px) == (px * One) \div default_canvas_width
PixeltoY(o, py) == ((-py) * One) \div default_canvas_height
XtoPixel(o, x) == TruncDiv(x * default_canvas_width, One)
YtoPixel(o, y) == TruncDiv((One - y) * default_canvas_height, One)

(* pixel_to_coord(pad, x=x) and pixel_to_coord(pad, y=y) *)
pixel_to_coord_x(pad, x) == PixeltoX(pad, x)
pixel_to_coord_y(pad, y) == PixeltoY(pad, -y)

(* obj.GetRightMargin() if rtl else obj.GetLeftMargin(), and the same for *)
(* the top and the bottom                                                  *)
GetMargin(o, key) == pads[o][key]

(* obj.GetCanvas() *)
GetCanvas(o) == pads[o].canvas

(* The loop left after its first turn, the parent not looked at *)
MarginLoopBody_NoParent(lp, key) ==
    [obj |-> lp.obj, m |-> lp.m + GetMargin(lp.obj, key), done |-> TRUE]

(* One turn of the loop `while True` of get_x and get_y: the margin added *)
(* to m, then the step to the parent, or the break                         *)
MarginLoopBody(lp, key) ==
    LET m == lp.m + GetMargin(lp.obj, key)
        parent == GetCanvas(lp.obj)
    IN  IF parent # lp.obj THEN [obj |-> parent, m |-> m, done |-> FALSE]
        ELSE [obj |-> lp.obj, m |-> m, done |-> TRUE]

MarginLoopStart(canvas) == [obj |-> canvas, m |-> 0, done |-> FALSE]

RECURSIVE MarginLoop(_, _)
MarginLoop(lp, key) ==
    IF lp.done THEN lp.m ELSE MarginLoop(MarginLoopBody(lp, key), key)

(* x = 1. - x when the anchor is the right or the top side *)
Flip(far, v) == IF far THEN One - v ELSE v

(* The margin added whatever the anchor *)
ApplyMargin_Add(far, v, m) == v + m

(* x = (x - m) if rtl else (x + m) *)
ApplyMargin(far, v, m) == IF far THEN v - m ELSE v + m

(* get_x(x, canvas, anchor, offset, margins, pixel); canvas 0 is None *)
get_x(x, canvas, anchor, offset, margins, pixel) ==
    IF anchor \notin {"left", "l", "right", "r"} THEN Raises("Exception")
    ELSE
    LET rtl == anchor \in {"right", "r"}
        width == StyleNumber("canvas_width")
        usesWidth == canvas = 0 /\ (IsInt(x) \/ (offset.v # 0 /\ IsInt(offset)) \/ pixel)
        x1 == IF ~IsInt(x) THEN x.v
              ELSE IF canvas # 0 THEN pixel_to_coord_x(canvas, x.v)
              ELSE (x.v * One) \div width.ret
        off == IF offset.v = 0 THEN 0
               ELSE IF ~IsInt(offset) THEN offset.v
               ELSE IF canvas # 0 THEN pixel_to_coord_x(canvas, offset.v)
               ELSE (offset.v * One) \div width.ret
        x2 == Flip(rtl, x1 + off)
        key == IF rtl THEN "RightMargin" ELSE "LeftMargin"
        m == IF ~margins THEN Returns(0)
             ELSE IF canvas # 0 THEN Returns(MarginLoop(MarginLoopStart(canvas), key))
             ELSE StylePadMargin(key)
        x3 == IF margins THEN ApplyMargin(rtl, x2, m.ret) ELSE x2
    IN  IF usesWidth /\ width.err # "none" THEN Raises(width.err)
        ELSE IF m.err # "none" THEN Raises(m.err)
        ELSE IF ~pixel THEN Returns(Fl(x3))
        ELSE IF canvas # 0 THEN Returns(Px(XtoPixel(canvas, x3)))
        ELSE Returns(Px(RoundDiv(x3 * width.ret, One)))

(* get_y(y, canvas, anchor, offset, margins, pixel) *)
get_y(y, canvas, anchor, offset, margins, pixel) ==
    IF anchor \notin {"bottom", "b", "top", "t"} THEN Raises("Exception")
    ELSE
    LET ttb == anchor \in {"top", "t"}
        height == StyleNumber("canvas_height")
        usesHeight == canvas = 0 /\ (IsInt(y) \/ (offset.v # 0 /\ IsInt(offset)) \/ pixel)
        y1 == IF ~IsInt(y) THEN y.v
              ELSE IF canvas # 0 THEN pixel_to_coord_y(canvas, y.v)
              ELSE (y.v * One) \div height.ret
        off == IF offset.v = 0 THEN 0
               ELSE IF ~IsInt(offset) THEN offset.v
               ELSE IF canvas # 0 THEN pixel_to_coord_y(canvas, offset.v)
               ELSE (offset.v * One) \div height.ret
        y2 == Flip(ttb, y1 + off)
        key == IF ttb THEN "TopMargin" ELSE "BottomMargin"
        m == IF ~margins THEN Returns(0)
             ELSE IF canvas # 0 THEN Returns(MarginLoop(MarginLoopStart(canvas), key))
             ELSE StylePadMargin(key)
        y3 == IF margins THEN ApplyMargin(ttb, y2, m.ret) ELSE y2
    IN  IF usesHeight /\ height.err # "none" THEN Raises(height.err)
        ELSE IF m.err # "none" THEN Raises(m.err)
        ELSE IF ~pixel THEN Returns(Fl(y3))
        ELSE IF canvas # 0 THEN Returns(Px(YtoPixel(canvas, y3)))
        ELSE Returns(Px(RoundDiv(y3 * height.ret, One)))

---------------------------------------------------------------------------
(* A script that sets up the default style or the canvases and pads, and  *)
(* then makes a call of tools.py, which ends it                            *)

(* styles.set("default", DotDict(canvas_width=800, canvas_height=640,     *)
(* legend_dy=0.045, ..., pad=DotDict(LeftMargin=..., ...))), as           *)
(* default.py does; a margin of -1 is a key that the pad style leaves out. *)
DefaultStyle(h, m) ==
    LET pad == [cls |-> "DotDict",
                items |-> [k \in {kk \in MarginKeys : m[kk] >= 0} |-> Val(m[k])]]
        style == [cls |-> "DotDict",
                  items |-> ("canvas_width" :> Val(default_canvas_width)) @@
                            ("canvas_height" :> Val(default_canvas_height)) @@
                            ("legend_dy" :> Val(default_legend_dy)) @@
                            ("legend_x1" :> Val(default_legend_x1)) @@
                            ("legend_x2" :> Val(default_legend_x2)) @@
                            ("legend_y2" :> Val(default_legend_y2)) @@
                            ("pad" :> Ref(Len(h) + 1))]
    IN  [heap |-> h \o <<pad, style>>, obj |-> Len(h) + 2]

SetDefaultStyle(m) ==
    /\ call = NoCall
    /\ pads = <<>>
    /\ LET d == DefaultStyle(heap, m)
           r == Styles_set(styles, DEFAULT_STYLE_NAME, TRUE, d.obj)
       IN  Commit(r.styles, d.heap, "set", r.err)
    /\ UNCHANGED <<stack, frames, legend, pads, hist, axis, call>>

(* The style in use sets no margin of a pad *)
NoStyleMargins ==
    LET pad == Styles_getattr(styles, stack, heap, "pad")
    IN  IF pad.kind = "value" THEN heap[pad.value.ref].items = NoItems ELSE TRUE

(* ROOT.TCanvas(...), and a pad in the container made last, which it      *)
(* names as its canvas; SetMargin(left, right, bottom, top) with the       *)
(* margins of the two axes taken crosswise                                 *)
NewContainer(near, far) ==
    /\ call = NoCall
    /\ Len(pads) < MaxDepth
    /\ NoStyleMargins
    /\ pads' = Append(pads, [canvas |-> IF pads = <<>> THEN 1 ELSE Len(pads),
                             LeftMargin |-> near, RightMargin |-> far,
                             BottomMargin |-> far, TopMargin |-> near])
    /\ UNCHANGED <<styles, stack, heap, frames, last, legend, hist, axis, call>>

(* The pad handed to a call: None without pads, else the pad made last *)
PadArg == IF pads = <<>> THEN 0 ELSE Len(pads)

(* The arguments of the calls of get_x (get_y): the value, the anchor     *)
(* (near, far or one of the other axis), the offset, margins and pixel     *)
AxisArgs(near, far, other) ==
    [v : {Fl(0), Fl(One), Px(10)}, anchor : {near, far}, offset : {Fl(0)},
     margins : BOOLEAN, pixel : {FALSE}]
    \cup [v : {Fl(0)}, anchor : {near, far}, offset : {Fl(160), Px(10)},
          margins : {TRUE}, pixel : {FALSE}]
    \cup [v : {Fl(0), Fl(One)}, anchor : {near, far}, offset : {Fl(0)},
          margins : {TRUE}, pixel : {TRUE}]
    \cup [v : {Fl(0)}, anchor : {other}, offset : {Fl(0)},
          margins : {TRUE}, pixel : {FALSE}]

Called(op, canvas, a, r) ==
    [op |-> op, canvas |-> canvas, args |-> a, err |-> r.err, ret |-> r.ret]

GetX(a) ==
    /\ call = NoCall
    /\ call' = Called("get_x", PadArg, a,
                      get_x(a.v, PadArg, a.anchor, a.offset, a.margins, a.pixel))
    /\ UNCHANGED <<styles, stack, heap, frames, last, legend, pads, hist, axis>>

GetY(a) ==
    /\ call = NoCall
    /\ call' = Called("get_y", PadArg, a,
                      get_y(a.v, PadArg, a.anchor, a.offset, a.margins, a.pixel))
    /\ UNCHANGED <<styles, stack, heap, frames, last, legend, pads, hist, axis>>

NextCoords ==
    \/ \E m \in [MarginKeys -> -1..MaxMargin] : SetDefaultStyle(m)
    \/ \E near \in 0..MaxMargin, far \in 0..MaxMargin : NewContainer(near, far)
    \/ \E a \in AxisArgs("left", "right", "top") : GetX(a)
    \/ \E a \in AxisArgs("bottom", "top", "left") : GetY(a)

SpecCoords == Init /\ [][NextCoords]_vars

---------------------------------------------------------------------------
(* Properties of get_x and get_y, under SpecCoords *)

(* The containers from o up to the one that is its own canvas *)
RECURSIVE Chain(_)
Chain(o) == IF pads[o].canvas = o THEN {o} ELSE {o} \cup Chain(pads[o].canvas)

RECURSIVE SumOfMargins(_, _)
SumOfMargins(S, key) ==
    IF S = {} THEN 0
    ELSE LET o == CHOOSE x \in S : TRUE
         IN  pads[o][key] + SumOfMargins(S \ {o}, key)

(* The margin on the side key that belongs to a call: that of the pad     *)
(* style when no pad is given (0 when the style does not set it), else     *)
(* that of the pad and of the containers above it                          *)
MarginOf(canvas, key) ==
    IF canvas = 0
    THEN LET pad == heap[heap[styles[DEFAULT_STYLE_NAME]].items["pad"].ref]
         IN  IF key \in DOMAIN pad.items THEN pad.items[key].val ELSE 0
    ELSE SumOfMargins(Chain(canvas), key)

(* A call with margins, no offset and no pixel output that returned *)
PlainCall(op, v, anchor) ==
    /\ call.op = op
    /\ call.err = "none"
    /\ call.args = [v |-> v, anchor |-> anchor, offset |-> Fl(0),
                    margins |-> TRUE, pixel |-> FALSE]

(* C14 as stated: get_x(0.0, anchor=left) is the left margin and          *)
(* get_x(1.0, anchor=right) is 1 - right_margin; get_y likewise.           *)
C14_MarginsAtZeroAndOne ==
    /\ PlainCall("get_x", Fl(0), "left")
          => call.ret = Fl(MarginOf(call.canvas, "LeftMargin"))
    /\ PlainCall("get_x", Fl(One), "right")
          => call.ret = Fl(One - MarginOf(call.canvas, "RightMargin"))
    /\ PlainCall("get_y", Fl(0), "bottom")
          => call.ret = Fl(MarginOf(call.canvas, "BottomMargin"))
    /\ PlainCall("get_y", Fl(One), "top")
          => call.ret = Fl(One - MarginOf(call.canvas, "TopMargin"))

(* C14, amended: the value is the distance from the anchor side.          *)
(* get_x(0.0, anchor=left) is the left margin and get_x(0.0, anchor=right) *)
(* is 1 - right_margin; get_x(1.0, anchor=right) is (1 - 1.0) -            *)
(* right_margin = -right_margin, and get_x(1.0, anchor=left) is 1 +        *)
(* left_margin; get_y likewise with the bottom and top margins.            *)
C14_MarginsFromAnchor ==
    /\ PlainCall("get_x", Fl(0), "left")
          => call.ret = Fl(MarginOf(call.canvas, "LeftMargin"))
    /\ PlainCall("get_x", Fl(0), "right")
          => call.ret = Fl(One - MarginOf(call.canvas, "RightMargin"))
    /\ PlainCall("get_x", Fl(One), "right")
          => call.ret = Fl(0 - MarginOf(call.canvas, "RightMargin"))
    /\ PlainCall("get_x", Fl(One), "left")
          => call.ret = Fl(One + MarginOf(call.canvas, "LeftMargin"))
    /\ PlainCall("get_y", Fl(0), "bottom")
          => call.ret = Fl(MarginOf(call.canvas, "BottomMargin"))
    /\ PlainCall("get_y", Fl(0), "top")
          => call.ret = Fl(One - MarginOf(call.canvas, "TopMargin"))
    /\ PlainCall("get_y", Fl(One), "top")
          => call.ret = Fl(0 - MarginOf(call.canvas, "TopMargin"))
    /\ PlainCall("get_y", Fl(One), "bottom")
          => call.ret = Fl(One + MarginOf(call.canvas, "BottomMargin"))

(* get_x(0.0, anchor=right) without a pad, under a style whose right      *)
(* margin is not zero and differs from the left one                        *)
C14_Witness ==
    /\ PlainCall("get_x", Fl(0), "right")
    /\ call.canvas = 0
    /\ MarginOf(0, "RightMargin") > 0
    /\ MarginOf(0, "RightMargin") # MarginOf(0, "LeftMargin")
    /\ call.ret = Fl(One - MarginOf(0, "RightMargin"))

---------------------------------------------------------------------------
(* get_x(0., pad, anchor) and get_y(0., pad, anchor) with margins, one    *)
(* turn of the margin loop at a time                                       *)

SideKey == [left |-> "LeftMargin", right |-> "RightMargin",
            bottom |-> "BottomMargin", top |-> "TopMargin"]
Sides == DOMAIN SideKey
FarSides == {"right", "top"}

(* The call up to `obj = canvas` *)
EnterMarginLoop(anchor) ==
    /\ call = NoCall
    /\ pads # <<>>
    /\ call' = [op |-> IF anchor \in {"left", "right"} THEN "get_x" ELSE "get_y",
                canvas |-> PadArg, anchor |-> anchor, pc |-> "loop",
                loop |-> MarginLoopStart(PadArg), turns |-> 0, ret |-> None]
    /\ UNCHANGED <<styles, stack, heap, frames, last, legend, pads, hist, axis>>

(* One turn of `while True` *)
MarginLoopTurn ==
    /\ call # NoCall
    /\ call.pc = "loop"
    /\ LET lp == MarginLoopBody(call.loop, SideKey[call.anchor])
       IN  call' = [call EXCEPT !.loop = lp, !.turns = @ + 1,
                                !.pc = IF lp.done THEN "done" ELSE "loop"]
    /\ UNCHANGED <<styles, stack, heap, frames, last, legend, pads, hist, axis>>

(* After the loop: the margin applied, the value returned *)
LeaveMarginLoop ==
    /\ call # NoCall
    /\ call.pc = "done"
    /\ LET far == call.anchor \in FarSides
       IN  call' = [call EXCEPT !.pc = "returned",
                                !.ret = Fl(ApplyMargin(far, Flip(far, 0), call.loop.m))]
    /\ UNCHANGED <<styles, stack, heap, frames, last, legend, pads, hist, axis>>

NextMarginLoop ==
    \/ \E near \in 0..MaxMargin, far \in 0..MaxMargin : NewContainer(near, far)
    \/ \E anchor \in Sides : EnterMarginLoop(anchor)
    \/ MarginLoopTurn
    \/ LeaveMarginLoop

(* A call that has started goes on: the interpreter runs it *)
SpecMarginLoop ==
    /\ Init
    /\ [][NextMarginLoop]_vars
    /\ WF_vars(MarginLoopTurn)
    /\ WF_vars(LeaveMarginLoop)

(* The containers of the chain that the loop has added *)
Visited ==
    IF call.pc = "loop"
    THEN Chain(call.canvas) \ Chain(call.loop.obj)
    ELSE Chain(call.canvas)

(* C19: for a pad in a chain of containers that ends in a canvas which is *)
(* its own canvas, the margin loop ends, after one turn for each container *)
(* of the chain, and the margin applied is the sum of the margins on the   *)
(* anchor side of the pad and of every container above it, each once.      *)
C19_LoopEndsWithSum ==
    /\ [](call # NoCall =>
            /\ call.loop.m = SumOfMargins(Visited, SideKey[call.anchor])
            /\ call.turns = Cardinality(Visited)
            /\ call.turns <= Len(pads)
            /\ call.pc = "returned" =>
                  /\ call.turns = Cardinality(Chain(call.canvas))
                  /\ call.ret.v =
                        IF call.anchor \in FarSides
                        THEN One - SumOfMargins(Chain(call.canvas), SideKey[call.anchor])
                        ELSE SumOfMargins(Chain(call.canvas), SideKey[call.anchor])
                  /\ call.ret =
                        (IF call.op = "get_x"
                         THEN get_x(Fl(0), call.canvas, call.anchor, Fl(0), TRUE, FALSE)
                         ELSE get_y(Fl(0), call.canvas, call.anchor, Fl(0), TRUE, FALSE)).ret)
    /\ ((call # NoCall) ~> (call # NoCall /\ call.pc = "returned"))

(* A call on the innermost of three containers, each with a margin on the *)
(* anchor side, that has returned                                          *)
C19_Witness ==
    /\ call # NoCall
    /\ call.pc = "returned"
    /\ call.canvas = 3
    /\ call.turns = 3
    /\ \A o \in Chain(call.canvas) : pads[o][SideKey[call.anchor]] > 0
    /\ Cardinality(Chain(call.canvas)) = 3

---------------------------------------------------------------------------
(* calculate_legend_coords (plotlib/root/tools.py) *)

Abs(a) == [a EXCEPT !.v = IF @ < 0 THEN -@ ELSE @]

(* The value of a number in arithmetic: the int k is k * 1.0 *)
ToFloat(a) == IF IsInt(a) THEN a.v * One ELSE a.v

Plus(a, b) ==
    IF a.err # "none" THEN a ELSE IF b.err # "none" THEN b
    ELSE Returns(Fl(a.ret.v + b.ret.v))

(* The extent added where it is to be taken off *)
Minus_Added(a, b) ==
    IF a.err # "none" THEN a ELSE IF b.err # "none" THEN b
    ELSE Returns(Fl(a.ret.v + b.ret.v))

Minus(a, b) ==
    IF a.err # "none" THEN a ELSE IF b.err # "none" THEN b
    ELSE Returns(Fl(a.ret.v - b.ret.v))

(* n * a *)
Times(n, a) == IF a.err # "none" THEN a ELSE Returns(Fl(n * a.ret.v))

(* The row spacing preferred over the height *)
VerticalExtent_SpacingFirst(height, dy, n, H, DY, LDY) ==
    IF ~IsNone(dy) THEN Times(n, DY)
    ELSE IF ~IsNone(height) THEN H
    ELSE Times(n, LDY)

(* The extent between y1 and y2 when one is derived from the other: the   *)
(* height if given, else n * dy if dy is given, else n * styles.legend_dy  *)
VerticalExtent(height, dy, n, H, DY, LDY) ==
    IF ~IsNone(height) THEN H
    ELSE IF ~IsNone(dy) THEN Times(n, DY)
    ELSE Times(n, LDY)

(* A pad argument: None, a TPad or TCanvas, or an int (the old signature) *)
PadObj(o) == [kind |-> "pad", v |-> o]
CanvasOf(pad) == IF pad.kind = "pad" THEN pad.v ELSE 0

(* The horizontal positioning of calculate_legend_coords, given what the  *)
(* calls of get_x return: gx of x1 and x2, of the width and of the two      *)
(* default positions, again of the converted x1.                           *)
(* [err, ret |-> <<x1, x2>>]                                               *)
HorizontalBox(x1, x2, width, gx, again) ==
    LET X1 == IF IsNone(x1) THEN Returns(None) ELSE gx["x1"]
        X2b == IF ~IsNone(x2) THEN gx["x2"]
               ELSE IF ~IsNone(width) /\ ~IsNone(x1) THEN Plus(again, gx["w"])
               ELSE gx["far"]
        X1b == IF ~IsNone(x1) THEN X1
               ELSE IF ~IsNone(width) THEN Minus(X2b, gx["w"])
               ELSE gx["near"]
    IN  IF X1.err # "none" THEN Raises(X1.err)
        ELSE IF X2b.err # "none" THEN Raises(X2b.err)
        ELSE IF X1b.err # "none" THEN Raises(X1b.err)
        ELSE [err |-> "none", ret |-> <<X1b.ret.v, X2b.ret.v>>]

(* get_x(x1, pad) of the x1 that get_x returned *)
AgainX(c, X1) ==
    IF X1.err # "none" THEN X1 ELSE get_x(X1.ret, c, "left", Fl(0), TRUE, FALSE)

ConvertedX(x1, x2, width, c, gx) ==
    HorizontalBox(x1, x2, width, gx, AgainX(c, gx["x1"]))

(* The horizontal part of calculate_legend_coords: x1 and x2 converted    *)
(* when given, then the missing ones derived                               *)
legend_x(pad, x1, x2, width) ==
    LET Side(v) == IF v.v >= 0 THEN "left" ELSE "right"
        arg == [x1   |-> [v |-> Abs(x1), anchor |-> Side(x1), margins |-> TRUE],
                x2   |-> [v |-> Abs(x2), anchor |-> Side(x2), margins |-> TRUE],
                w    |-> [v |-> width, anchor |-> "left", margins |-> FALSE],
                far  |-> [v |-> Px(10), anchor |-> "right", margins |-> TRUE],
                near |-> [v |-> Fl(One \div 4), anchor |-> "right", margins |-> TRUE]]
    IN  ConvertedX(x1, x2, width, CanvasOf(pad),
                   [k \in {"x1", "x2", "w", "far", "near"} |->
                      get_x(arg[k].v, CanvasOf(pad), arg[k].anchor, Fl(0),
                            arg[k].margins, FALSE)])

(* The vertical positioning, given what the calls of get_y return: gy of  *)
(* y1 and y2, of the height, of dy and styles.legend_dy and of the default *)
(* position, again of the converted y1.  [err, ret |-> <<y1, y2>>]          *)
VerticalBox(y1, y2, height, dy, n, gy, again) ==
    LET Y1 == IF IsNone(y1) THEN Returns(None) ELSE gy["y1"]
        Extent == VerticalExtent(height, dy, n, gy["h"], gy["dy"], gy["ldy"])
        Y2b == IF ~IsNone(y2) THEN gy["y2"]
               ELSE IF ~IsNone(y1) /\ (~IsNone(height) \/ ~IsNone(dy))
                    THEN Plus(again, Extent)
               ELSE gy["far"]
        Y1b == IF ~IsNone(y1) THEN Y1
               ELSE Minus(Y2b, Extent)
    IN  IF Y1.err # "none" THEN Raises(Y1.err)
        ELSE IF Y2b.err # "none" THEN Raises(Y2b.err)
        ELSE IF Y1b.err # "none" THEN Raises(Y1b.err)
        ELSE [err |-> "none", ret |-> <<Y1b.ret.v, Y2b.ret.v>>]

(* get_y(y1, pad) of the y1 that get_y returned *)
AgainY(c, Y1) ==
    IF Y1.err # "none" THEN Y1 ELSE get_y(Y1.ret, c, "bottom", Fl(0), TRUE, FALSE)

ConvertedY(y1, y2, height, dy, n, c, gy) ==
    VerticalBox(y1, y2, height, dy, n, gy, AgainY(c, gy["y1"]))

(* get_y(styles.legend_dy, pad, margins=False) *)
StyleSpacing(c, sdy) ==
    IF sdy.err # "none" THEN sdy
    ELSE get_y(Fl(sdy.ret), c, "bottom", Fl(0), FALSE, FALSE)

(* The vertical part of calculate_legend_coords *)
legend_y(pad, y1, y2, height, dy, n) ==
    LET Side(v) == IF v.v >= 0 THEN "bottom" ELSE "top"
        arg == [y1  |-> [v |-> Abs(y1), anchor |-> Side(y1), margins |-> TRUE],
                y2  |-> [v |-> Abs(y2), anchor |-> Side(y2), margins |-> TRUE],
                h   |-> [v |-> height, anchor |-> "bottom", margins |-> FALSE],
                dy  |-> [v |-> dy, anchor |-> "bottom", margins |-> FALSE],
                far |-> [v |-> Px(10), anchor |-> "top", margins |-> TRUE]]
    IN  ConvertedY(y1, y2, height, dy, n, CanvasOf(pad),
                   [k \in {"y1", "y2", "h", "dy", "far", "ldy"} |->
                      IF k = "ldy"
                      THEN StyleSpacing(CanvasOf(pad), StyleNumber("legend_dy"))
                      ELSE get_y(arg[k].v, CanvasOf(pad), arg[k].anchor, Fl(0),
                                 arg[k].margins, FALSE)])

(* calculate_legend_coords_old(n_entries, x1, x2, y2, dy) *)
calculate_legend_coords_old(n_entries, x1, x2, y2, dy) ==
    LET Or(a, attr) == IF IsNone(a) THEN StyleNumber(attr) ELSE Returns(ToFloat(a))
        X1 == Or(x1, "legend_x1")
        X2 == Or(x2, "legend_x2")
        Y2 == Or(y2, "legend_y2")
        DY == Or(dy, "legend_dy")
    IN  IF X1.err # "none" \/ X2.err # "none" \/ Y2.err # "none" \/ DY.err # "none"
        THEN Raises("AttributeError")
        ELSE [err |-> "none",
              ret |-> <<X1.ret, Y2.ret - DY.ret * n_entries, X2.ret, Y2.ret>>]

(* calculate_legend_coords(pad, x1, x2, width, y1, y2, height, dy, n):    *)
(* [err, ret |-> <<x1, y1, x2, y2>>]                                       *)
calculate_legend_coords(pad, x1, x2, width, y1, y2, height, dy, n) ==
    IF IsInt(pad) THEN calculate_legend_coords_old(pad.v, x1, x2, y2, dy)
    ELSE LET h == legend_x(pad, x1, x2, width)
             v == legend_y(pad, y1, y2, height, dy, n)
         IN  IF h.err # "none" THEN Raises(h.err)
             ELSE IF v.err # "none" THEN Raises(v.err)
             ELSE [err |-> "none",
                   ret |-> <<h.ret[1], v.ret[1], h.ret[2], v.ret[2]>>]

(* A canvas of its own, with no pad in it *)
NewCanvas(near, far) ==
    /\ pads = <<>>
    /\ NewContainer(near, far)

(* The arguments of the calls: positions (from the left or bottom, and    *)
(* negative from the right or top), extents and row spacings as floats or  *)
(* as pixels, and row counts                                               *)
Positions == {None, Fl(One \div 2), Fl(0 - (One \div 10))}
Extents == {None, Fl(One \div 4), Px(100)}
Spacings == {None, Fl(One \div 20), Px(16)}
Rows == {1, 3}

LegendArgs ==
    [x1 : Positions, x2 : Positions, width : Extents,
     y1 : {None}, y2 : {None}, height : {None}, dy : {None}, n : {1}]
    \cup [x1 : {None}, x2 : {None}, width : {None},
          y1 : Positions, y2 : Positions, height : Extents, dy : Spacings, n : Rows]
    \cup [x1 : {None}, x2 : Positions \ {None}, width : Extents \ {None},
          y1 : {None}, y2 : Positions \ {None}, height : {None},
          dy : Spacings \ {None}, n : {3}]

(* The pad of a call: the canvas if there is one, else None; or an int,   *)
(* which is the old signature                                              *)
LegendPads == {IF pads = <<>> THEN None ELSE PadObj(Len(pads)), Px(2)}

CalculateLegendCoords(pad, a) ==
    /\ call = NoCall
    /\ call' = [op |-> "calculate_legend_coords", pad |-> pad, args |-> a] @@
               calculate_legend_coords(pad, a.x1, a.x2, a.width, a.y1, a.y2,
                                       a.height, a.dy, a.n)
    /\ UNCHANGED <<styles, stack, heap, frames, last, legend, pads, hist, axis>>

(* The margins of a pad style with the same margin on the two near sides  *)
(* and on the two far sides                                                *)
SideMargins(near, far) ==
    [k \in MarginKeys |-> IF k \in {"LeftMargin", "BottomMargin"} THEN near ELSE far]

NextLegendBox ==
    \/ \E near \in -1..MaxMargin, far \in -1..MaxMargin :
          SetDefaultStyle(SideMargins(near, far))
    \/ \E near \in 0..MaxMargin, far \in 0..MaxMargin : NewCanvas(near, far)
    \/ \E pad \in LegendPads, a \in LegendArgs : CalculateLegendCoords(pad, a)

SpecLegendBox == Init /\ [][NextLegendBox]_vars

---------------------------------------------------------------------------
(* Properties of calculate_legend_coords, under SpecLegendBox *)

BoxCall ==
    /\ call.op = "calculate_legend_coords"
    /\ ~IsInt(call.pad)
    /\ call.err = "none"

(* A position as get_x and get_y convert it: from the near side plus its  *)
(* margin, or, when negative, from the far side minus its margin           *)
PositionOf(a, canvas, nearKey, farKey) ==
    IF a.v >= 0 THEN a.v + MarginOf(canvas, nearKey)
    ELSE One - (0 - a.v) - MarginOf(canvas, farKey)

(* An extent or a row spacing: a float as it is, an int as pixels of the  *)
(* canvas width or height                                                  *)
ExtentOf(a, extent) == IF IsInt(a) THEN (a.v * One) \div extent ELSE a.v

(* A call with only x2, width, y2, dy and n = 3 *)
OnlyFarCornerGiven ==
    /\ BoxCall
    /\ IsNone(call.args.x1) /\ ~IsNone(call.args.x2) /\ ~IsNone(call.args.width)
    /\ IsNone(call.args.y1) /\ ~IsNone(call.args.y2) /\ IsNone(call.args.height)
    /\ ~IsNone(call.args.dy) /\ call.args.n = 3

(* C15 as stated: the x2 and y2 returned are the x2 and y2 passed in,     *)
(* x1 = x2 - width and y1 = y2 - 3 * dy, whatever the margins (for         *)
(* positions, width and dy that are floats, the positions not negative).   *)
C15_FarCornerPassedThrough ==
    (/\ OnlyFarCornerGiven
     /\ call.args.x2.v >= 0 /\ call.args.y2.v >= 0
     /\ ~IsInt(call.args.width) /\ ~IsInt(call.args.dy)) =>
        call.ret = <<call.args.x2.v - call.args.width.v,
                     call.args.y2.v - 3 * call.args.dy.v,
                     call.args.x2.v, call.args.y2.v>>

(* C15, amended: the x2 and y2 returned are the x2 and y2 passed in as    *)
(* get_x and get_y convert them relative to the pad: x2 + left margin and  *)
(* y2 + bottom margin, or for a negative value 1 - |x2| - right margin and *)
(* 1 - |y2| - top margin; x1 is the returned x2 - width and y1 the         *)
(* returned y2 - 3 * dy.  x2 and y2 come back unchanged only when they are *)
(* not negative and the left and the bottom margin are 0.                  *)
C15_FarCornerConverted ==
    OnlyFarCornerGiven =>
       LET c == CanvasOf(call.pad)
           X2 == PositionOf(call.args.x2, c, "LeftMargin", "RightMargin")
           Y2 == PositionOf(call.args.y2, c, "BottomMargin", "TopMargin")
           W == ExtentOf(call.args.width, default_canvas_width)
           DY == ExtentOf(call.args.dy, default_canvas_height)
       IN  /\ call.ret = <<X2 - W, Y2 - 3 * DY, X2, Y2>>
           /\ (call.args.x2.v >= 0 /\ MarginOf(c, "LeftMargin") = 0)
                 => call.ret[3] = call.args.x2.v
           /\ (call.args.y2.v >= 0 /\ MarginOf(c, "BottomMargin") = 0)
                 => call.ret[4] = call.args.y2.v

(* Such a call under a style with a left and a bottom margin: the corner  *)
(* returned is not the one passed in                                       *)
C15_Witness ==
    /\ OnlyFarCornerGiven
    /\ call.pad = None
    /\ call.args.x2.v >= 0 /\ call.args.y2.v >= 0
    /\ MarginOf(0, "LeftMargin") > 0
    /\ MarginOf(0, "BottomMargin") > 0
    /\ call.ret[3] # call.args.x2.v
    /\ call.ret[4] # call.args.y2.v
    /\ call.ret[1] = call.ret[3] - ExtentOf(call.args.width, default_canvas_width)

(* The parts of the call and of what it returned *)
BoxPad == CanvasOf(call.pad)
BoxX == <<call.ret[1], call.ret[3]>>
BoxY == <<call.ret[2], call.ret[4]>>
GivenX1 == PositionOf(call.args.x1, BoxPad, "LeftMargin", "RightMargin")
GivenX2 == PositionOf(call.args.x2, BoxPad, "LeftMargin", "RightMargin")
GivenY1 == PositionOf(call.args.y1, BoxPad, "BottomMargin", "TopMargin")
GivenY2 == PositionOf(call.args.y2, BoxPad, "BottomMargin", "TopMargin")
GivenWidth == ExtentOf(call.args.width, default_canvas_width)
GivenHeight == ExtentOf(call.args.height, default_canvas_height)
GivenDy == ExtentOf(call.args.dy, default_canvas_height)

(* The same call with another width, or another height, dy and n: what it *)
(* returns when it returns, the ret of the call itself when it raises (one  *)
(* that needs an attribute which the style lacks)                          *)
WithWidth(w) ==
    LET r == legend_x(call.pad, call.args.x1, call.args.x2, w)
    IN  IF r.err = "none" THEN r.ret ELSE BoxX
WithHeightDyN(h, d, n) ==
    LET r == legend_y(call.pad, call.args.y1, call.args.y2, h, d, n)
    IN  IF r.err = "none" THEN r.ret ELSE BoxY

(* C16: a bound that is given is returned as converted, whatever width,   *)
(* height, dy and n are (in every such call that returns); a missing bound is derived from the other one by  *)
(* the width or height when given (dy and n then have no influence), else  *)
(* by n * dy when dy is given, else by n * styles.legend_dy or, for x1 and *)
(* for a bound whose opposite lacks too, from the default position.        *)
C16_Priority ==
    BoxCall =>
       /\ ~IsNone(call.args.x1) =>
             /\ call.ret[1] = GivenX1
             /\ \A w \in Extents : WithWidth(w)[1] = call.ret[1]
       /\ ~IsNone(call.args.x2) =>
             /\ call.ret[3] = GivenX2
             /\ \A w \in Extents : WithWidth(w)[2] = call.ret[3]
       /\ ~IsNone(call.args.y1) =>
             /\ call.ret[2] = GivenY1
             /\ \A h \in Extents, d \in Spacings, n \in Rows :
                   WithHeightDyN(h, d, n)[1] = call.ret[2]
       /\ ~IsNone(call.args.y2) =>
             /\ call.ret[4] = GivenY2
             /\ \A h \in Extents, d \in Spacings, n \in Rows :
                   WithHeightDyN(h, d, n)[2] = call.ret[4]
       /\ (IsNone(call.args.x1) /\ ~IsNone(call.args.width))
             => call.ret[1] = call.ret[3] - GivenWidth
       /\ (IsNone(call.args.x1) /\ IsNone(call.args.width))
             => call.ret[1] = One - (One \div 4) - MarginOf(BoxPad, "RightMargin")
       /\ (IsNone(call.args.x2) /\ ~IsNone(call.args.x1) /\ ~IsNone(call.args.width))
             => call.ret[3] = call.ret[1] + MarginOf(BoxPad, "LeftMargin") + GivenWidth
       /\ (IsNone(call.args.x2) /\ (IsNone(call.args.x1) \/ IsNone(call.args.width)))
             => call.ret[3] = One - ExtentOf(Px(10), default_canvas_width)
                                  - MarginOf(BoxPad, "RightMargin")
       /\ (IsNone(call.args.y1) /\ ~IsNone(call.args.height)) =>
             /\ call.ret[2] = call.ret[4] - GivenHeight
             /\ \A d \in Spacings, n \in Rows :
                   WithHeightDyN(call.args.height, d, n) = BoxY
       /\ (IsNone(call.args.y1) /\ IsNone(call.args.height) /\ ~IsNone(call.args.dy))
             => call.ret[2] = call.ret[4] - call.args.n * GivenDy
       /\ (IsNone(call.args.y1) /\ IsNone(call.args.height) /\ IsNone(call.args.dy))
             => call.ret[2] = call.ret[4] - call.args.n * default_legend_dy
       /\ (IsNone(call.args.y2) /\ ~IsNone(call.args.y1) /\ ~IsNone(call.args.height)) =>
             /\ call.ret[4] = call.ret[2] + MarginOf(BoxPad, "BottomMargin") + GivenHeight
             /\ \A d \in Spacings, n \in Rows :
                   WithHeightDyN(call.args.height, d, n) = BoxY
       /\ (/\ IsNone(call.args.y2) /\ ~IsNone(call.args.y1)
           /\ IsNone(call.args.height) /\ ~IsNone(call.args.dy))
             => call.ret[4] = call.ret[2] + MarginOf(BoxPad, "BottomMargin")
                                 + call.args.n * GivenDy
       /\ (IsNone(call.args.y2)
           /\ (IsNone(call.args.y1)
               \/ (IsNone(call.args.height) /\ IsNone(call.args.dy))))
             => call.ret[4] = One - ExtentOf(Px(10), default_canvas_height)
                                  - MarginOf(BoxPad, "TopMargin")

(* y2, a height and a dy given, three rows, y1 missing: the height and    *)
(* three times dy differ, and y1 lies the height below y2                  *)
C16_Witness ==
    /\ BoxCall
    /\ IsNone(call.args.y1) /\ ~IsNone(call.args.y2)
    /\ ~IsNone(call.args.height) /\ ~IsNone(call.args.dy)
    /\ call.args.n = 3
    /\ GivenHeight # 3 * GivenDy
    /\ call.ret[2] = call.ret[4] - GivenHeight

---------------------------------------------------------------------------
(* merge_dicts (plotlib/util.py), apply_properties and setup_hist         *)
(* (plotlib/root/tools.py).  A property value is a single value or a      *)
(* tuple of arguments; the TH1 keeps, for each of its methods, the number  *)
(* of calls and the arguments of the last call.                            *)

Single(v) == [tuple |-> FALSE, args |-> <<v>>]
Tuple(t) == [tuple |-> TRUE, args |-> t]
Absent == [tuple |-> FALSE, args |-> <<>>]

(* getattr(obj, "Set{}".format(name), getattr(obj, name, None)) on a TH1  *)
(* and on a TAxis: SetLineWidth and SetLineColorAlpha are methods of a     *)
(* TH1, Smooth is one that has no Set method, and a TH1 has nothing named  *)
(* NoSuchMethod; SetTickLength, SetTitleOffset and SetTitleSize are        *)
(* methods of a TAxis                                                      *)
SetterOf == [LineWidth |-> "SetLineWidth", LineColorAlpha |-> "SetLineColorAlpha",
             Smooth |-> "Smooth", NoSuchMethod |-> "None",
             TickLength |-> "SetTickLength", TitleOffset |-> "SetTitleOffset",
             TitleSize |-> "SetTitleSize"]

(* The properties that a style and a caller set, and their values *)
StylePropNames == {"LineWidth", "LineColorAlpha"}
StylePropValues == {Single(1), Tuple(<<1, 2>>)}
CallerPropNames == {"LineWidth", "Smooth", "NoSuchMethod"}
CallerPropValues == {Single(2), Tuple(<<2, 1>>)}

(* The items of a dict written as a function that maps a key left out to  *)
(* Absent                                                                  *)
ItemsOf(p) == [k \in {n \in DOMAIN p : p[n] # Absent} |-> Val(p[k])]

(* merged_dict.update(d) *)
dict_update(h, o, d) ==
    [h EXCEPT ![o].items = [k \in DOMAIN @ \cup DOMAIN h[d].items |->
                              IF k \in DOMAIN h[d].items THEN h[d].items[k]
                              ELSE @[k]]]

(* for d in dicts: if isinstance(d, dict): merged_dict.update(d) *)
MergeAll(h, m, dicts) ==
    LET F[i \in 0..Len(dicts)] ==
            IF i = 0 THEN h
            ELSE IF IsRef(dicts[i]) THEN dict_update(F[i - 1], m, dicts[i].ref)
                 ELSE F[i - 1]
    IN  F[Len(dicts)]

(* The first dict of dicts *)
FirstDict(dicts) ==
    LET i == CHOOSE j \in DOMAIN dicts :
                 IsRef(dicts[j]) /\ \A l \in 1..(j - 1) : ~IsRef(dicts[l])
    IN  dicts[i].ref

(* The dicts merged into the first of them *)
merge_dicts_InPlace(h, dicts, cls) ==
    IF cls = "" /\ \A i \in DOMAIN dicts : ~IsRef(dicts[i])
    THEN [err |-> "TypeError", heap |-> h, obj |-> 0]
    ELSE [err |-> "none", heap |-> MergeAll(h, FirstDict(dicts), dicts),
          obj |-> FirstDict(dicts)]

(* merge_dicts of the arguments dicts and cls: an argument is a reference *)
(* to a dict or a value that is no dict; cls = "" is cls=None.             *)
(* [err, heap, obj |-> the merged dict]                                    *)
merge_dicts(h, dicts, cls) ==
    IF cls = "" /\ \A i \in DOMAIN dicts : ~IsRef(dicts[i])
    THEN [err |-> "TypeError", heap |-> h, obj |-> 0]
    ELSE LET c == IF cls # "" THEN cls ELSE h[FirstDict(dicts)].cls
             m == Len(h) + 1
         IN  [err |-> "none", heap |-> MergeAll(Append(h, NewObj(c)), m, dicts),
              obj |-> m]

(* The methods that apply_properties calls for the items of a dict *)
SettersOf(items) == {SetterOf[n] : n \in DOMAIN items} \ {"None"}
NameOf(items, setter) == CHOOSE n \in DOMAIN items : SetterOf[n] = setter

(* apply_properties of obj and the dicts props, _props...: obj after the  *)
(* setter calls, one for each item of the merged dict that has a callable  *)
(* setter, with the value or the members of the tuple as arguments.        *)
(* [err, heap, obj, merged]                                                *)
apply_properties(obj, h, dicts) ==
    LET r == merge_dicts(h, dicts, "")
        items == r.heap[r.obj].items
        called == SettersOf(items)
        Calls(s) == IF s \in DOMAIN obj.setters THEN obj.setters[s] ELSE 0
    IN  IF r.err # "none"
        THEN [err |-> r.err, heap |-> r.heap, obj |-> obj, merged |-> 0]
        ELSE [err |-> "none", heap |-> r.heap, merged |-> r.obj,
              obj |-> [obj EXCEPT
                  !.setters = [s \in DOMAIN @ \cup called |->
                                 IF s \in called THEN Calls(s) + 1 ELSE @[s]],
                  !.props = [s \in DOMAIN @ \cup called |->
                               IF s \in called
                               THEN items[NameOf(items, s)].val.args
                               ELSE @[s]]]]

(* setup_hist(hist, props) with pad=None and color=None:                  *)
(* apply_properties(hist, styles.hist, props)                              *)
setup_hist(obj, h, props) ==
    LET style == Styles_getattr(styles, stack, h, "hist")
    IN  IF style.kind # "value"
        THEN [err |-> "AttributeError", heap |-> h, obj |-> obj, merged |-> 0]
        ELSE apply_properties(obj, h, <<style.value, props>>)

(* styles.set(name, DotDict(hist=DotDict(...))) *)
SetHistStyle(name, sp) ==
    /\ call = NoCall
    /\ LET h == heap \o <<[cls |-> "DotDict", items |-> ItemsOf(sp)],
                          [cls |-> "DotDict",
                           items |-> ("hist" :> Ref(Len(heap) + 1))]>>
           r == Styles_set(styles, name, TRUE, Len(heap) + 2)
       IN  Commit(r.styles, h, "set", r.err)
    /\ UNCHANGED <<stack, frames, legend, pads, hist, axis, call>>

(* styles.push(name) at the top level of the script *)
PushStyle(name) ==
    /\ call = NoCall
    /\ stack = <<>>
    /\ Push(name)

(* ROOT.TH1F(...); setup_hist(hist, props), where props is None or a dict *)
(* of the caller.  The call keeps what the caller can see afterwards: its  *)
(* dict, and the properties that were merged.                              *)
SetupHist(given, p) ==
    /\ call = NoCall
    /\ given \/ \A n \in DOMAIN p : p[n] = Absent
    /\ LET h == IF given THEN Append(heap, [cls |-> "dict", items |-> ItemsOf(p)])
                ELSE heap
           props == IF given THEN Ref(Len(h)) ELSE None
           style == Styles_getattr(styles, stack, heap, "hist")
           r == setup_hist(NoHist, h, props)
           c == Collect(styles, r.heap)
       IN  /\ hist' = r.obj
           /\ heap' = c.heap
           /\ styles' = c.styles
           /\ last' = Outcome("setup_hist", r.err)
           /\ call' = [op |-> "setup_hist", err |-> r.err, given |-> given,
                       props |-> ItemsOf(p),
                       props_after |-> IF given THEN r.heap[props.ref].items
                                       ELSE NoItems,
                       style |-> IF style.kind = "value" /\ IsRef(style.value)
                                 THEN heap[style.value.ref].items ELSE NoItems,
                       merged |-> IF r.err = "none" THEN r.heap[r.merged].items
                                  ELSE NoItems]
    /\ UNCHANGED <<stack, frames, legend, pads, axis>>

NextSetup ==
    \/ \E name \in Names, sp \in [StylePropNames -> StylePropValues \cup {Absent}] :
          SetHistStyle(name, sp)
    \/ \E name \in CallNames : PushStyle(name)
    \/ \E given \in BOOLEAN, p \in [CallerPropNames -> CallerPropValues \cup {Absent}] :
          SetupHist(given, p)

SpecSetup == Init /\ [][NextSetup]_vars

---------------------------------------------------------------------------
(* Properties of setup_hist, under SpecSetup *)

(* The hist properties of the style in use, as the heap holds them *)
StyleHistItems ==
    LET style == Styles_getattr(styles, stack, heap, "hist")
    IN  IF style.kind = "value" /\ IsRef(style.value)
        THEN heap[style.value.ref].items ELSE NoItems

---------------------------------------------------------------------------
(* set_hist_value, add_hist_value, show_hist_underflow and                *)
(* show_hist_overflow (plotlib/root/tools.py).  A TH1 with n bins holds    *)
(* the contents of the bins 0 (underflow), 1..n and n + 1 (overflow), and, *)
(* once Sumw2() was called, the sum of squared weights of each.  An        *)
(* optional number is <<>> (None) or <<v>>.                                *)

MaxBins == 2
MaxFills == 3
Weights == {-1, 1, 2}

(* The place of bin i in content and sumw2 *)
Bin(i) == i + 1

GetBinContent(h, i) == h.content[Bin(i)]
GetSumw2N(h) == Len(h.sumw2)
GetNbinsX(h) == h.nbins
SetBinContent(h, i, value) == [h EXCEPT !.content[Bin(i)] = value]
AddBinContent(h, i, value) == [h EXCEPT !.content[Bin(i)] = @ + value]
SetSumw2At(h, i, value) == [h EXCEPT !.sumw2[Bin(i)] = value]

(* err2 = err**2. if err2 is None and err is not None *)
Err2Of(err, err2) ==
    IF err2 = <<>> /\ err # <<>> THEN <<err[1] * err[1]>> ELSE err2

(* set_hist_value(hist, i, value, err=None, err2=None) *)
set_hist_value(h, i, value, err, err2) ==
    LET h1 == SetBinContent(h, i, value)
        e2 == Err2Of(err, err2)
    IN  IF GetSumw2N(h1) # 0 /\ e2 # <<>> THEN SetSumw2At(h1, i, e2[1]) ELSE h1

(* The value added and the squared weights left as they are *)
add_hist_value_ErrLost(h, i, value, err, err2) == AddBinContent(h, i, value)

(* add_hist_value(hist, i, value, err=None, err2=None) *)
add_hist_value(h, i, value, err, err2) ==
    LET e2 == Err2Of(err, err2)
        update_err == GetSumw2N(h) # 0 /\ e2 # <<>>
        h1 == AddBinContent(h, i, value)
    IN  IF update_err THEN SetSumw2At(h1, i, h.sumw2[Bin(i)] + e2[1]) ELSE h1

(* show_hist_underflow(hist, clear=True) *)
show_hist_underflow(h, clear) ==
    LET underflow == GetBinContent(h, 0)
        err2 == IF GetSumw2N(h) = 0 THEN <<>> ELSE <<h.sumw2[Bin(0)]>>
        h1 == add_hist_value(h, 1, underflow, <<>>, err2)
    IN  IF underflow = 0 THEN h
        ELSE IF clear THEN set_hist_value(h1, 0, 0, <<>>, <<0>>)
        ELSE h1

(* show_hist_overflow(hist, clear=True) *)
show_hist_overflow(h, clear) ==
    LET n_bins == GetNbinsX(h)
        overflow == GetBinContent(h, n_bins + 1)
        err2 == IF GetSumw2N(h) = 0 THEN <<>> ELSE <<h.sumw2[Bin(n_bins + 1)]>>
        h1 == add_hist_value(h, n_bins, overflow, <<>>, err2)
    IN  IF overflow = 0 THEN h
        ELSE IF clear THEN set_hist_value(h1, n_bins + 1, 0, <<>>, <<0>>)
        ELSE h1

(* ROOT.TH1F(name, title, n, lo, hi) *)
NewHist(n) ==
    /\ hist = NoHist
    /\ hist' = [NoHist EXCEPT !.nbins = n, !.content = [i \in 1..(n + 2) |-> 0]]
    /\ last' = Outcome("TH1F", "none")
    /\ UNCHANGED <<styles, stack, heap, frames, legend, pads, axis, call>>

(* hist.Sumw2() on a hist that was not filled yet *)
Sumw2 ==
    /\ hist # NoHist
    /\ hist.entries = 0
    /\ GetSumw2N(hist) = 0
    /\ hist' = [hist EXCEPT !.sumw2 = [i \in 1..(hist.nbins + 2) |-> 0]]
    /\ last' = Outcome("Sumw2", "none")
    /\ UNCHANGED <<styles, stack, heap, frames, legend, pads, axis, call>>

(* hist.Fill(x, w) with x in bin i: below the axis, in it, or above *)
Fill(i, w) ==
    /\ hist # NoHist
    /\ hist.entries < MaxFills
    /\ i \in 0..(hist.nbins + 1)
    /\ hist' = [hist EXCEPT !.entries = @ + 1,
                            !.content[Bin(i)] = @ + w,
                            !.sumw2 = IF @ = <<>> THEN @
                                      ELSE [@ EXCEPT ![Bin(i)] = @ + w * w]]
    /\ last' = Outcome("Fill", "none")
    /\ call' = NoCall
    /\ UNCHANGED <<styles, stack, heap, frames, legend, pads, axis>>

(* A call of show_hist_underflow or show_hist_overflow; the call keeps    *)
(* the hist as it was before.  A call with clear=False, which a repetition *)
(* would let add the same content again and again, is the last one before  *)
(* the hist is filled again.                                               *)
ShowCall(op, clear, after) ==
    /\ hist # NoHist
    /\ IF call = NoCall THEN TRUE ELSE call.clear
    /\ hist' = after
    /\ last' = Outcome(op, "none")
    /\ call' = [op |-> op, clear |-> clear, before |-> hist]
    /\ UNCHANGED <<styles, stack, heap, frames, legend, pads, axis>>

ShowHistUnderflow(clear) ==
    ShowCall("show_hist_underflow", clear, show_hist_underflow(hist, clear))

ShowHistOverflow(clear) ==
    ShowCall("show_hist_overflow", clear, show_hist_overflow(hist, clear))

NextHist ==
    \/ \E n \in 1..MaxBins : NewHist(n)
    \/ Sumw2
    \/ \E i \in 0..(MaxBins + 1), w \in Weights : Fill(i, w)
    \/ \E clear \in BOOLEAN : ShowHistUnderflow(clear)
    \/ \E clear \in BOOLEAN : ShowHistOverflow(clear)

SpecHist == Init /\ [][NextHist]_vars

---------------------------------------------------------------------------
(* Properties of show_hist_underflow and show_hist_overflow, under        *)
(* SpecHist                                                                *)

RECURSIVE SumSeq(_)
SumSeq(q) == IF q = <<>> THEN 0 ELSE Head(q) + SumSeq(Tail(q))

(* The bin from has been moved into the bin to: a call with clear=True on *)
(* a hist whose bin from was not 0 has added its content to the bin to and *)
(* set it to 0, likewise its sum of squared weights when these are kept,   *)
(* and has left every other bin as it was; the total content is what it    *)
(* was.                                                                    *)
Moved(from, to) ==
    LET b == call.before
    IN  /\ hist.content[Bin(to)] = b.content[Bin(to)] + b.content[Bin(from)]
        /\ hist.content[Bin(from)] = 0
        /\ \A i \in (0..(b.nbins + 1)) \ {from, to} :
              hist.content[Bin(i)] = b.content[Bin(i)]
        /\ GetSumw2N(hist) = GetSumw2N(b)
        /\ GetSumw2N(b) # 0 =>
              /\ hist.sumw2[Bin(to)] = b.sumw2[Bin(to)] + b.sumw2[Bin(from)]
              /\ hist.sumw2[Bin(from)] = 0
              /\ \A i \in (0..(b.nbins + 1)) \ {from, to} :
                    hist.sumw2[Bin(i)] = b.sumw2[Bin(i)]
        /\ SumSeq(hist.content) = SumSeq(b.content)
        /\ SumSeq(hist.sumw2) = SumSeq(b.sumw2)
        /\ [hist EXCEPT !.content = b.content, !.sumw2 = b.sumw2] = b

UnderflowShown ==
    /\ call.op = "show_hist_underflow" /\ call.clear
    /\ GetBinContent(call.before, 0) # 0

OverflowShown ==
    /\ call.op = "show_hist_overflow" /\ call.clear
    /\ GetBinContent(call.before, call.before.nbins + 1) # 0

(* C18: show_hist_underflow(hist, clear=True) on a hist with non-zero     *)
(* underflow moves the content, and the sum of squared weights when kept,  *)
(* of bin 0 into bin 1, leaves the other bins and the total as they were,  *)
(* and a second call changes nothing; show_hist_overflow does the same     *)
(* with the bins n_bins + 1 and n_bins.                                    *)
C18_FlowMoved ==
    /\ UnderflowShown =>
          /\ Moved(0, 1)
          /\ show_hist_underflow(hist, TRUE) = hist
    /\ OverflowShown =>
          /\ Moved(hist.nbins + 1, hist.nbins)
          /\ show_hist_overflow(hist, TRUE) = hist

(* A hist that keeps squared weights, with content in its first bin and   *)
(* in its underflow, after the underflow was shown                         *)
C18_Witness ==
    /\ UnderflowShown
    /\ GetSumw2N(hist) # 0
    /\ call.before.content[Bin(1)] # 0
    /\ call.before.sumw2[Bin(0)] # 0
    /\ hist.content[Bin(1)] # call.before.content[Bin(1)]
    /\ hist.sumw2[Bin(1)] = call.before.sumw2[Bin(1)] + call.before.sumw2[Bin(0)]

---------------------------------------------------------------------------
(* setup_x_axis, setup_y_axis and setup_z_axis (plotlib/root/tools.py).   *)
(* The axis properties of a style are DotDicts under the keys x_axis,      *)
(* x2_axis, y_axis and z_axis; a call copies the one it needs, adds the    *)
(* TickLength and TitleOffset it computes where the style sets none, and   *)
(* applies the copy and the caller's props to the TAxis.                   *)

default_auto_ticklength == 48

AxisKeys == {"x_axis", "x2_axis", "y_axis", "z_axis"}
ComputedProps == {"TickLength", "TitleOffset"}

(* The window of a canvas has the size that setup_canvas gave it; a pad   *)
(* spans the user coordinates 0 to 1                                       *)
GetWindowWidth(o) == default_canvas_width
GetWindowHeight(o) == default_canvas_height
GetX1(o) == 0
GetX2(o) == One
GetY1(o) == 0
GetY2(o) == One

(* d.setdefault(k, x) *)
dict_setdefault(h, o, k, x) ==
    IF k \in DOMAIN h[o].items THEN h ELSE SetItemOf(h, o, k, x)

(* A call that raised: what it leaves *)
Failed(e, h, obj) == [err |-> e, heap |-> h, obj |-> obj, merged |-> 0]

(* styles.<key>.copy(): [err, heap, obj] *)
StyleAxisCopy(h, key) ==
    LET a == Styles_getattr(styles, stack, h, key)
    IN  IF a.kind # "value" \/ ~IsRef(a.value)
        THEN [err |-> "AttributeError", heap |-> h, obj |-> 0]
        ELSE LET c == DotDict_copy(h, a.value.ref)
             IN  [err |-> "none", heap |-> c.heap, obj |-> c.obj]

(* setup_x_axis(axis, pad, props, x2=x2) with color=None; pad = 0 is None *)
setup_x_axis(ax, h, pad, props, x2) ==
    IF pad = 0 THEN Failed("AttributeError", h, ax)
    ELSE
    LET canvas_height == GetWindowHeight(GetCanvas(pad))
        c == StyleAxisCopy(h, IF x2 THEN "x2_axis" ELSE "x_axis")
        pad_width == One - GetMargin(pad, "LeftMargin") - GetMargin(pad, "RightMargin")
        real_height == YtoPixel(pad, GetY1(pad)) - YtoPixel(pad, GetY2(pad))
        real_width == XtoPixel(pad, GetX2(pad)) - XtoPixel(pad, GetX1(pad))
        ticks == pad_width # 0 /\ real_height # 0
        auto == StyleNumber("auto_ticklength")
        tick_length == (((auto.ret * One) \div pad_width) * real_width) \div real_height
        h1 == IF ticks
              THEN dict_setdefault(c.heap, c.obj, "TickLength", Val(Single(tick_length)))
              ELSE c.heap
        sh == StyleNumber("canvas_height")
        offset == (((1075 * One) \div 1000) * sh.ret) \div canvas_height
        h2 == dict_setdefault(h1, c.obj, "TitleOffset", Val(Single(offset)))
    IN  IF c.err # "none" THEN Failed(c.err, c.heap, ax)
        ELSE IF ticks /\ auto.err # "none" THEN Failed(auto.err, c.heap, ax)
        ELSE IF sh.err # "none" THEN Failed(sh.err, h1, ax)
        ELSE IF canvas_height = 0 THEN Failed("ZeroDivisionError", h1, ax)
        ELSE apply_properties(ax, h2, <<Ref(c.obj), props>>)

(* setup_y_axis(axis, pad, props) with color=None *)
setup_y_axis(ax, h, pad, props) ==
    IF pad = 0 THEN Failed("AttributeError", h, ax)
    ELSE
    LET canvas_width == GetWindowWidth(GetCanvas(pad))
        c == StyleAxisCopy(h, "y_axis")
        sw == StyleNumber("canvas_width")
        offset == (((14 * One) \div 10) * sw.ret) \div canvas_width
        h1 == dict_setdefault(c.heap, c.obj, "TitleOffset", Val(Single(offset)))
        pad_height == One - GetMargin(pad, "TopMargin") - GetMargin(pad, "BottomMargin")
        auto == StyleNumber("auto_ticklength")
        h2 == IF pad_height # 0
              THEN dict_setdefault(h1, c.obj, "TickLength",
                                   Val(Single((auto.ret * One) \div pad_height)))
              ELSE h1
    IN  IF c.err # "none" THEN Failed(c.err, c.heap, ax)
        ELSE IF sw.err # "none" THEN Failed(sw.err, c.heap, ax)
        ELSE IF canvas_width = 0 THEN Failed("ZeroDivisionError", c.heap, ax)
        ELSE IF pad_height # 0 /\ auto.err # "none" THEN Failed(auto.err, h1, ax)
        ELSE apply_properties(ax, h2, <<Ref(c.obj), props>>)

(* setup_z_axis(axis, pad, props) with color=None *)
setup_z_axis(ax, h, pad, props) ==
    IF pad = 0 THEN Failed("AttributeError", h, ax)
    ELSE
    LET canvas_width == GetWindowWidth(GetCanvas(pad))
        c == StyleAxisCopy(h, "z_axis")
        sw == StyleNumber("canvas_width")
        offset == (((14 * One) \div 10) * sw.ret) \div canvas_width
        h1 == dict_setdefault(c.heap, c.obj, "TitleOffset", Val(Single(offset)))
    IN  IF c.err # "none" THEN Failed(c.err, c.heap, ax)
        ELSE IF sw.err # "none" THEN Failed(sw.err, c.heap, ax)
        ELSE IF canvas_width = 0 THEN Failed("ZeroDivisionError", c.heap, ax)
        ELSE apply_properties(ax, h1, <<Ref(c.obj), props>>)

(* styles.set("default", DotDict(canvas_width=800, canvas_height=640,     *)
(* auto_ticklength=0.015, x_axis=DotDict(...), ...)): an axis sets a       *)
(* TitleSize and those of TickLength and TitleOffset that t names; without *)
(* numbers the style leaves out the three numbers.  A script sets the      *)
(* style first.                                                            *)
AxisStyle(h, t, numbers) ==
    LET Props(k) ==
            [cls |-> "DotDict",
             items |-> [p \in {"TitleSize"} \cup t[k] |->
                          Val(Single(IF p = "TitleSize" THEN 25 ELSE 0))]]
        refs == ("x_axis" :> Ref(Len(h) + 1)) @@ ("x2_axis" :> Ref(Len(h) + 2)) @@
                ("y_axis" :> Ref(Len(h) + 3)) @@ ("z_axis" :> Ref(Len(h) + 4))
        style == [cls |-> "DotDict",
                  items |-> IF numbers
                            THEN ("canvas_width" :> Val(default_canvas_width)) @@
                                 ("canvas_height" :> Val(default_canvas_height)) @@
                                 ("auto_ticklength" :> Val(default_auto_ticklength)) @@
                                 refs
                            ELSE refs]
    IN  [heap |-> h \o <<Props("x_axis"), Props("x2_axis"), Props("y_axis"),
                         Props("z_axis"), style>>,
         obj |-> Len(h) + 5]

SetAxisStyle(t, numbers) ==
    /\ call = NoCall
    /\ last.op = "init"
    /\ LET d == AxisStyle(heap, t, numbers)
           r == Styles_set(styles, DEFAULT_STYLE_NAME, TRUE, d.obj)
       IN  Commit(r.styles, d.heap, "set", r.err)
    /\ UNCHANGED <<stack, frames, legend, pads, hist, axis, call>>

(* A canvas with the same margin m on its four sides *)
AxisMargins == {0, One \div 10, One \div 2}

NewAxisPad(m) ==
    /\ call = NoCall
    /\ pads = <<>>
    /\ pads' = <<[canvas |-> 1, LeftMargin |-> m, RightMargin |-> m,
                  BottomMargin |-> m, TopMargin |-> m]>>
    /\ last' = Outcome("TCanvas", "none")
    /\ UNCHANGED <<styles, stack, heap, frames, legend, hist, axis, call>>

(* The props of a caller: None, or dict(TitleOffset=2.) *)
AxisProps(h, given) ==
    IF given THEN Append(h, [cls |-> "dict",
                             items |-> ("TitleOffset" :> Val(Single(2 * One)))])
    ELSE h

(* What the call a does to a new TAxis in the state as it is *)
SetupAxisResult(a) ==
    LET h == AxisProps(heap, a.given)
        props == IF a.given THEN Ref(Len(h)) ELSE None
    IN  IF a.op = "setup_x_axis" THEN setup_x_axis(NoAxis, h, a.pad, props, a.x2)
        ELSE IF a.op = "setup_y_axis" THEN setup_y_axis(NoAxis, h, a.pad, props)
        ELSE setup_z_axis(NoAxis, h, a.pad, props)

(* setup_x_axis, setup_y_axis or setup_z_axis on the axis of a new hist, *)
(* with the canvas if there is one and None otherwise; the call keeps the  *)
(* registry, the mappings and the stack as they were before                *)
SetupAxis(a) ==
    /\ a.pad = Len(pads)
    /\ LET r == SetupAxisResult(a)
           c == Collect(styles, r.heap)
       IN  /\ axis' = r.obj
           /\ heap' = c.heap
           /\ styles' = c.styles
           /\ last' = Outcome(a.op, r.err)
           /\ call' = [op |-> a.op, pad |-> a.pad, given |-> a.given, x2 |-> a.x2,
                       before |-> [styles |-> styles, heap |-> heap,
                                   stack |-> stack]]
    /\ UNCHANGED <<stack, frames, legend, pads, hist>>

SetupXAxis(given, x2) ==
    SetupAxis([op |-> "setup_x_axis", pad |-> Len(pads), given |-> given, x2 |-> x2])

SetupYAxis(given) ==
    SetupAxis([op |-> "setup_y_axis", pad |-> Len(pads), given |-> given, x2 |-> FALSE])

SetupZAxis(given) ==
    SetupAxis([op |-> "setup_z_axis", pad |-> Len(pads), given |-> given, x2 |-> FALSE])

NextAxis ==
    \/ \E t \in [AxisKeys -> {{}, ComputedProps}], numbers \in BOOLEAN :
          SetAxisStyle(t, numbers)
    \/ \E name \in CallNames : PushStyle(name)
    \/ \E m \in AxisMargins : NewAxisPad(m)
    \/ \E given \in BOOLEAN, x2 \in BOOLEAN : SetupXAxis(given, x2)
    \/ \E given \in BOOLEAN : SetupYAxis(given)
    \/ \E given \in BOOLEAN : SetupZAxis(given)

SpecAxis == Init /\ [][NextAxis]_vars

---------------------------------------------------------------------------
(* Properties of setup_x_axis, setup_y_axis and setup_z_axis, under       *)
(* SpecAxis                                                                *)

SetupAxisOps == {"setup_x_axis", "setup_y_axis", "setup_z_axis"}

(* The call made last, made again on a new TAxis *)
Replayed == SetupAxisResult(call).obj

(* C20: a call of setup_x_axis, setup_y_axis or setup_z_axis leaves the   *)
(* registry, every mapping of every registered style and the style stack   *)
(* as they were, and the same call made again sets up a TAxis in the same  *)
(* way.                                                                    *)
C20_StyleUntouched ==
    call.op \in SetupAxisOps =>
       /\ styles = call.before.styles
       /\ heap = call.before.heap
       /\ stack = call.before.stack
       /\ Replayed = axis

(* A call of setup_x_axis that returned and set a TickLength and a        *)
(* TitleOffset which the style in use does not set                         *)
C20_Witness ==
    /\ call.op = "setup_x_axis" /\ ~call.x2
    /\ last.err = "none"
    /\ stack # <<>>
    /\ {"SetTickLength", "SetTitleOffset"} \subseteq DOMAIN axis.setters
    /\ LET a == Styles_getattr(styles, stack, heap, "x_axis")
       IN  DOMAIN heap[a.value.ref].items = {"TitleSize"}

====
